---- MODULE Spec2Model ----
(***************************************************************************)
(* Tiny CBase: Base16 / Base32 / Base58 / Base64 / Base85 codecs.          *)
(*                                                                         *)
(* Bytes and characters are naturals 0..255 (characters are their ASCII    *)
(* codes).  A C buffer is the sequence of the cells written so far.  Each  *)
(* codec function is an operator that returns what the C function leaves   *)
(* behind: its return value, the cells it wrote to the output buffer and   *)
(* whether / what it stored into the caller's length variable.  The state  *)
(* machine is a caller with the buffers of cbase_demo.c that invokes one   *)
(* encoder on raw bytes and then the matching decoder, or invokes a        *)
(* decoder on a text it was given.  A second state machine runs two calls  *)
(* step by step on two threads over one shared memory.                     *)
(*                                                                         *)
(* The model is the default build: BASE_TRUNCATE_ON_NULL is 0, so the      *)
(* truncation loops are compiled out.                                      *)
(***************************************************************************)
EXTENDS Integers, Sequences, FiniteSets, TLC

VARIABLES
    pc,        \* where the caller is: start / loaded, then encoded, retried,
               \* roundtrip or decoded
    fmt,       \* the encode entry point that was called
    dfmt,      \* the decode entry point that was called
    nullarg,   \* which pointer argument of the first call is NULL, or none
    raw,       \* input_buf[0 .. input_len-1]
    cap,       \* the capacity BASE58_Encode read from *out_encoded_len
    encoded,   \* the cells of the text buffer written so far
    enc_len,   \* the caller's length variable of the text buffer
    decoded,   \* the cells of the byte buffer written so far
    dec_len,   \* the caller's length variable of the byte buffer
    ok,        \* the return value of the last call
    heap,      \* memory shared by two threads: cell address -> value
    frame,     \* thread -> the arguments and locals of the call it runs
    rodata     \* the static const tables the two threads read

seqvars == <<pc, fmt, dfmt, nullarg, raw, cap, encoded, enc_len, decoded, dec_len, ok>>

vars == <<pc, fmt, dfmt, nullarg, raw, cap, encoded, enc_len, decoded, dec_len, ok,
          heap, frame, rodata>>

(***************************************************************************)
(* Bounds of the explored inputs.                                          *)
(***************************************************************************)
MaxRawLen == 5
MaxTextLen == 4
MaxCap == 1
MaxOnes == 30
MaxNullLen == 1

\* byte values the raw inputs are built from: zero, space, 0xFF
ByteVals == {0, 32, 255}

\* characters the free texts are built from: '1' 'A' 'a' 'z'
TextChars == {49, 65, 97, 122}

(***************************************************************************)
(* Integer helpers for the C operators on unsigned values.                 *)
(***************************************************************************)
RECURSIVE BitAnd(_, _)
BitAnd(a, b) ==
    IF a = 0 \/ b = 0 THEN 0
    ELSE (a % 2) * (b % 2) + 2 * BitAnd(a \div 2, b \div 2)

RECURSIVE BitOr(_, _)
BitOr(a, b) ==
    IF a = 0 THEN b
    ELSE IF b = 0 THEN a
    ELSE (IF a % 2 = 1 \/ b % 2 = 1 THEN 1 ELSE 0) + 2 * BitOr(a \div 2, b \div 2)

RECURSIVE Pow2(_)
Pow2(n) == IF n = 0 THEN 1 ELSE 2 * Pow2(n - 1)

Shr(v, n) == v \div Pow2(n)

Max(a, b) == IF a >= b THEN a ELSE b

\* the cells of buf after w has been stored from its first cell on
Store(buf, w) ==
    [k \in 1..Max(Len(buf), Len(w)) |-> IF k <= Len(w) THEN w[k] ELSE buf[k]]

\* a failed call that stored nothing
Fail == [ok |-> FALSE, out |-> <<>>, wlen |-> FALSE, len |-> 0]

\* a successful call: cells written and the length stored
Done(out, len) == [ok |-> TRUE, out |-> out, wlen |-> TRUE, len |-> len]

NUL == 0

(***************************************************************************)
(* Mode flags (tiny_cbase.h).                                              *)
(***************************************************************************)
BASE16_UPPER == 1
BASE16_LOWER == 2
BASE16_DECODE == 4
BASE32_ENC == 16
BASE32_DEC == 32
BASE32_ENC_NOPAD == 64
BASE32_DEC_NOPAD == 128
BASE58_ENC == 256
BASE58_DEC == 512
BASE64_STD_ENC == 1024
BASE64_STD_DEC == 2048
BASE64_URL_ENC == 4096
BASE64_URL_DEC == 8192
BASE64_NOPAD_ENC == 16384
BASE64_NOPAD_DEC == 32768
BASE85_STD_ENC == 65536
BASE85_STD_DEC == 131072
BASE85_EXT_ENC == 262144
BASE85_EXT_DEC == 524288
BASE85_Z85_ENC == 1048576
BASE85_Z85_DEC == 2097152
BASE85_IGNORE_WS == 4194304

\* sizeof(encoded), sizeof(decoded) in the demo caller
MAX_BUF == 2048

(***************************************************************************)
(* Base16                                                                  *)
(***************************************************************************)
BASE16_ENC_TABLE_UPPER ==
    <<48, 49, 50, 51, 52, 53, 54, 55, 56, 57, 65, 66, 67, 68, 69, 70>>

BASE16_ENC_TABLE_LOWER ==
    <<48, 49, 50, 51, 52, 53, 54, 55, 56, 57, 97, 98, 99, 100, 101, 102>>

BASE16_MIN == 48
BASE16_MAX == 102

\* variant of BASE16_REV_TABLE without the upper-case letters
BASE16_REV_TABLE_LowerOnly ==
    <<0, 1, 2, 3, 4, 5, 6, 7, 8, 9, -1, -1, -1, -1, -1, -1, -1, -1, -1, -1,
      -1, -1, -1, -1, -1, -1, -1, -1, -1, -1, -1, -1, -1, -1, -1, -1, -1, -1,
      -1, -1, -1, -1, -1, -1, -1, -1, -1, -1, -1, 10, 11, 12, 13, 14, 15>>

BASE16_REV_TABLE ==
    <<0, 1, 2, 3, 4, 5, 6, 7, 8, 9, -1, -1, -1, -1, -1, -1, -1, 10, 11, 12,
      13, 14, 15, -1, -1, -1, -1, -1, -1, -1, -1, -1, -1, -1, -1, -1, -1, -1,
      -1, -1, -1, -1, -1, -1, -1, -1, -1, -1, -1, 10, 11, 12, 13, 14, 15>>

\* the table selected from mode_flags (tiny_cbase.c:55-57)
BASE16_SelectTable(mode_flags) ==
    IF mode_flags = BASE16_LOWER \/ mode_flags = BASE16_UPPER
    THEN BASE16_ENC_TABLE_LOWER
    ELSE BASE16_ENC_TABLE_UPPER

\* the characters the loop writes for raw_data[i..]
RECURSIVE BASE16_EncodeLoop(_, _, _)
BASE16_EncodeLoop(raw_data, table, i) ==
    IF i > Len(raw_data) THEN <<>>
    ELSE <<table[BitAnd(Shr(raw_data[i], 4), 15) + 1],
           table[BitAnd(raw_data[i], 15) + 1]>>
         \o BASE16_EncodeLoop(raw_data, table, i + 1)

\* variant of BASE16_Encode that reports the length without writing the
\* terminator
BASE16_Encode_NoTerminator(raw_data, np, mode_flags) ==
    IF np # "none" \/ Len(raw_data) = 0 THEN Fail
    ELSE LET text == BASE16_EncodeLoop(raw_data, BASE16_SelectTable(mode_flags), 1)
         IN  Done(text, Len(text))

BASE16_Encode(raw_data, np, mode_flags) ==
    IF np # "none" \/ Len(raw_data) = 0 THEN Fail
    ELSE LET text == BASE16_EncodeLoop(raw_data, BASE16_SelectTable(mode_flags), 1)
         IN  Done(text \o <<NUL>>, Len(text))

BASE16_EncodeUpper(data, np) == BASE16_Encode(data, np, BASE16_UPPER)

BASE16_EncodeLower(data, np) == BASE16_Encode(data, np, BASE16_LOWER)

BASE16_Rev(c) ==
    IF c >= BASE16_MIN /\ c <= BASE16_MAX
    THEN BASE16_REV_TABLE[c - BASE16_MIN + 1]
    ELSE -1

\* the decode loop from pair i on; out is what has been written so far
RECURSIVE BASE16_DecodeLoop(_, _, _)
BASE16_DecodeLoop(encoded_data, i, out) ==
    IF i > Len(encoded_data) THEN Done(out, Len(out))
    ELSE LET hi == BASE16_Rev(encoded_data[i])
             lo == BASE16_Rev(encoded_data[i + 1])
         IN  IF hi < 0 \/ lo < 0
             THEN [ok |-> FALSE, out |-> out, wlen |-> FALSE, len |-> 0]
             ELSE BASE16_DecodeLoop(encoded_data, i + 2,
                                    Append(out, BitOr(hi * 16, lo) % 256))

BASE16_Decode(encoded_data, np) ==
    IF np # "none" \/ Len(encoded_data) = 0 THEN Fail
    ELSE IF Len(encoded_data) % 2 # 0 THEN Fail
    ELSE BASE16_DecodeLoop(encoded_data, 1, <<>>)

(***************************************************************************)
(* uint64_t as 64 bits, most significant first (Base32's group buffer).    *)
(***************************************************************************)
U64(v) == [k \in 1..64 |-> IF 64 - k > 30 THEN 0 ELSE Shr(v, 64 - k) % 2]

U64Shl(a, n) == [k \in 1..64 |-> IF k + n <= 64 THEN a[k + n] ELSE 0]

U64Shr(a, n) == [k \in 1..64 |-> IF k - n >= 1 THEN a[k - n] ELSE 0]

U64Or(a, b) == [k \in 1..64 |-> IF a[k] = 1 \/ b[k] = 1 THEN 1 ELSE 0]

\* a & (2^w - 1) as a number, w <= 30
RECURSIVE U64Low(_, _)
U64Low(a, w) == IF w = 0 THEN 0 ELSE a[64] + 2 * U64Low(U64Shr(a, 1), w - 1)

(***************************************************************************)
(* Base32                                                                  *)
(***************************************************************************)
BASE32_PAD_CHAR == 61

BASE32_ENC_TABLE ==
    <<65, 66, 67, 68, 69, 70, 71, 72, 73, 74, 75, 76, 77, 78, 79, 80, 81, 82,
      83, 84, 85, 86, 87, 88, 89, 90, 50, 51, 52, 53, 54, 55>>

BASE32_MIN == 50
BASE32_MAX == 90

BASE32_REV_TABLE ==
    <<26, 27, 28, 29, 30, 31, -1, -1, -1, -1, -1, -2, -1, -1, -1, 0, 1, 2, 3,
      4, 5, 6, 7, 8, 9, 10, 11, 12, 13, 14, 15, 16, 17, 18, 19, 20, 21, 22,
      23, 24, 25>>

\* raw_data[i + k] of the C code or 0 past the end; i is 1-based here
BASE32_In(raw_data, i, k) == IF i + k <= Len(raw_data) THEN raw_data[i + k] ELSE 0

\* the 40-bit group buffer built from the five input bytes (tiny_cbase.c:143)
BASE32_Buf(raw_data, i) ==
    U64Or(U64Shl(U64(BASE32_In(raw_data, i, 0)), 32),
    U64Or(U64Shl(U64(BASE32_In(raw_data, i, 1)), 24),
    U64Or(U64Shl(U64(BASE32_In(raw_data, i, 2)), 16),
    U64Or(U64Shl(U64(BASE32_In(raw_data, i, 3)), 8),
          U64(BASE32_In(raw_data, i, 4))))))

\* variant of BASE32_Chunks that rounds the symbol count down
BASE32_Chunks_RoundDown(raw_data, i) == ((Len(raw_data) - (i - 1)) * 8) \div 5

\* number of real symbols of the group that starts at i
BASE32_Chunks(raw_data, i) == ((Len(raw_data) - (i - 1)) * 8 + 4) \div 5

\* the inner loop over c = 0..7 of one group
RECURSIVE BASE32_EncodeGroup(_, _, _, _)
BASE32_EncodeGroup(buf, chunks, no_pad, c) ==
    IF c >= 8 THEN <<>>
    ELSE (IF c < chunks
          THEN <<BASE32_ENC_TABLE[U64Low(U64Shr(buf, 35 - c * 5), 5) + 1]>>
          ELSE IF ~no_pad THEN <<BASE32_PAD_CHAR>>
          ELSE <<>>)
         \o BASE32_EncodeGroup(buf, chunks, no_pad, c + 1)

RECURSIVE BASE32_EncodeLoop(_, _, _)
BASE32_EncodeLoop(raw_data, no_pad, i) ==
    IF i > Len(raw_data) THEN <<>>
    ELSE BASE32_EncodeGroup(BASE32_Buf(raw_data, i),
                            BASE32_Chunks(raw_data, i), no_pad, 0)
         \o BASE32_EncodeLoop(raw_data, no_pad, i + 5)

BASE32_Encode(raw_data, np, mode_flags) ==
    IF np # "none" \/ Len(raw_data) = 0 THEN Fail
    ELSE LET no_pad == BitAnd(mode_flags, BASE32_ENC_NOPAD) # 0
             text == BASE32_EncodeLoop(raw_data, no_pad, 1)
         IN  Done(text \o <<NUL>>, Len(text))

BASE32_EncodeStd(data, np) == BASE32_Encode(data, np, BASE32_ENC)

BASE32_EncodeStdNoPad(data, np) ==
    BASE32_Encode(data, np, BitOr(BASE32_ENC, BASE32_ENC_NOPAD))

BASE32_Rev(c) ==
    IF c = BASE32_PAD_CHAR THEN 0
    ELSE IF c >= BASE32_MIN /\ c <= BASE32_MAX
    THEN BASE32_REV_TABLE[c - BASE32_MIN + 1]
    ELSE -1

\* the inner loop over j = 0..7 of the group at i: the buffer and the number
\* of non-pad symbols, or bad when a character has no value
RECURSIVE BASE32_DecodeGroup(_, _, _, _, _)
BASE32_DecodeGroup(encoded_data, i, j, buf, valid_chars) ==
    IF j >= 8 THEN [bad |-> FALSE, buf |-> buf, valid_chars |-> valid_chars]
    ELSE LET c == IF i + j <= Len(encoded_data) THEN encoded_data[i + j]
                  ELSE BASE32_PAD_CHAR
             val == BASE32_Rev(c)
         IN  IF val < 0
             THEN [bad |-> TRUE, buf |-> buf, valid_chars |-> valid_chars]
             ELSE BASE32_DecodeGroup(encoded_data, i, j + 1,
                      U64Or(U64Shl(buf, 5), U64(val)),
                      IF c # BASE32_PAD_CHAR THEN valid_chars + 1 ELSE valid_chars)

\* the bytes one group writes (tiny_cbase.c:189-193)
BASE32_GroupBytes(buf, valid_chars) ==
    (IF valid_chars >= 2 THEN <<U64Low(U64Shr(buf, 32), 8)>> ELSE <<>>) \o
    (IF valid_chars >= 4 THEN <<U64Low(U64Shr(buf, 24), 8)>> ELSE <<>>) \o
    (IF valid_chars >= 5 THEN <<U64Low(U64Shr(buf, 16), 8)>> ELSE <<>>) \o
    (IF valid_chars >= 7 THEN <<U64Low(U64Shr(buf, 8), 8)>> ELSE <<>>) \o
    (IF valid_chars >= 8 THEN <<U64Low(buf, 8)>> ELSE <<>>)

RECURSIVE BASE32_DecodeLoop(_, _, _)
BASE32_DecodeLoop(encoded_data, i, out) ==
    IF i > Len(encoded_data) THEN Done(out, Len(out))
    ELSE LET g == BASE32_DecodeGroup(encoded_data, i, 0, U64(0), 0)
         IN  IF g.bad
             THEN [ok |-> FALSE, out |-> out, wlen |-> FALSE, len |-> 0]
             ELSE BASE32_DecodeLoop(encoded_data, i + 8,
                                    out \o BASE32_GroupBytes(g.buf, g.valid_chars))

\* variant of BASE32_Decode without the length test of the padded mode
BASE32_Decode_AnyLength(encoded_data, np, mode_flags) ==
    IF np # "none" \/ Len(encoded_data) = 0 THEN Fail
    ELSE BASE32_DecodeLoop(encoded_data, 1, <<>>)

BASE32_Decode(encoded_data, np, mode_flags) ==
    IF np # "none" \/ Len(encoded_data) = 0 THEN Fail
    ELSE LET no_pad == BitAnd(mode_flags, BASE32_DEC_NOPAD) # 0
         IN  IF ~no_pad /\ Len(encoded_data) % 8 # 0 THEN Fail
             ELSE BASE32_DecodeLoop(encoded_data, 1, <<>>)

BASE32_DecodeStd(encoded_data, np) == BASE32_Decode(encoded_data, np, BASE32_DEC)

BASE32_DecodeStdNoPad(encoded_data, np) ==
    BASE32_Decode(encoded_data, np, BitOr(BASE32_DEC, BASE32_DEC_NOPAD))

(***************************************************************************)
(* Base58                                                                  *)
(***************************************************************************)
BASE58_LEADING_ZERO == 49

BASE58_ENC_TABLE ==
    <<49, 50, 51, 52, 53, 54, 55, 56, 57, 65, 66, 67, 68, 69, 70, 71, 72, 74,
      75, 76, 77, 78, 80, 81, 82, 83, 84, 85, 86, 87, 88, 89, 90, 97, 98, 99,
      100, 101, 102, 103, 104, 105, 106, 107, 109, 110, 111, 112, 113, 114,
      115, 116, 117, 118, 119, 120, 121, 122>>

BASE58_MIN == 49
BASE58_MAX == 122

BASE58_REV_TABLE ==
    <<0, 1, 2, 3, 4, 5, 6, 7, 8, -1, -1, -1, -1, -1, -1, -1, 9, 10, 11, 12,
      13, 14, 15, 16, -1, 17, 18, 19, 20, 21, -1, 22, 23, 24, 25, 26, 27, 28,
      29, 30, 31, 32, -1, -1, -1, -1, -1, -1, 33, 34, 35, 36, 37, 38, 39, 40,
      41, 42, 43, -1, 44, 45, 46, 47, 48, 49, 50, 51, 52, 53, 54, 55, 56, 57>>

BASE58_ENC_LEN(data_len) == (data_len * 138) \div 100 + 2

BASE58_DEC_LEN(str_len) == (str_len * 733) \div 1000 + 8

\* number of leading cells of s equal to v, counted from 0-based index z
RECURSIVE LeadCount(_, _, _)
LeadCount(s, v, z) ==
    IF z < Len(s) /\ s[z + 1] = v THEN LeadCount(s, v, z + 1) ELSE z

Zeros(n) == [k \in 1..n |-> 0]

\* the inner loop of the encoder (tiny_cbase.c:241-246); buf is indexed from
\* 0 in C, so cell j is buf[j + 1]; the result carries j as the loop leaves it
RECURSIVE BASE58_EncodeCarry(_, _, _, _)
BASE58_EncodeCarry(buf, val, j, high) ==
    IF j > high \/ val # 0
    THEN LET v == val + 256 * buf[j + 1]
             nbuf == [buf EXCEPT ![j + 1] = v % 58]
         IN  IF j = 0 THEN [buf |-> nbuf, j |-> 0]
             ELSE BASE58_EncodeCarry(nbuf, v \div 58, j - 1, high)
    ELSE [buf |-> buf, j |-> j]

\* the outer loop over the input bytes from 0-based index i on
RECURSIVE BASE58_EncodeDigits(_, _, _, _)
BASE58_EncodeDigits(raw_data, i, buf, high) ==
    IF i >= Len(raw_data) THEN buf
    ELSE LET r == BASE58_EncodeCarry(buf, raw_data[i + 1], Len(buf) - 1, high)
         IN  BASE58_EncodeDigits(raw_data, i + 1, r.buf, r.j)

\* variant of BASE58_Chars that also writes the leading zero digits of buf
BASE58_Chars_Untrimmed(buf, j) ==
    [k \in 1..Len(buf) |-> BASE58_ENC_TABLE[buf[k] + 1]]

\* the characters for buf[j..size-1]
BASE58_Chars(buf, j) ==
    [k \in 1..(Len(buf) - j) |-> BASE58_ENC_TABLE[buf[j + k] + 1]]

\* variant of BASE58_TooSmall that lets the terminator fall outside
BASE58_TooSmall_Strict(capacity, needed) == capacity < needed

\* the capacity test of the encoder (tiny_cbase.c:253)
BASE58_TooSmall(capacity, needed) == capacity <= needed

\* the required size reported on the insufficient-capacity path
BASE58_Required(needed) == needed + 1

\* capacity is the value of *out_encoded_len at the call
BASE58_Encode(raw_data, np, capacity) ==
    IF np # "none" \/ Len(raw_data) = 0 THEN Fail
    ELSE LET zcount == LeadCount(raw_data, 0, 0)
             size == BASE58_ENC_LEN(Len(raw_data) - zcount)
             buf == BASE58_EncodeDigits(raw_data, zcount, Zeros(size), size - 1)
             j == LeadCount(buf, 0, 0)
         IN  IF BASE58_TooSmall(capacity, zcount + size - j)
             THEN [ok |-> FALSE, out |-> <<>>, wlen |-> TRUE,
                   len |-> BASE58_Required(zcount + size - j)]
             ELSE LET text == [k \in 1..zcount |-> BASE58_LEADING_ZERO]
                              \o BASE58_Chars(buf, j)
                  IN  Done(text \o <<NUL>>, Len(text))

BASE58_Rev(c) ==
    IF c >= BASE58_MIN /\ c <= BASE58_MAX
    THEN BASE58_REV_TABLE[c - BASE58_MIN + 1]
    ELSE -1

\* the inner loop of the decoder over j = size-1 .. 0 (tiny_cbase.c:300-304)
RECURSIVE BASE58_DecodeCarry(_, _, _)
BASE58_DecodeCarry(buf, val, j) ==
    IF j < 0 THEN buf
    ELSE LET v == val + 58 * buf[j + 1]
         IN  BASE58_DecodeCarry([buf EXCEPT ![j + 1] = BitAnd(v, 255)],
                                Shr(v, 8), j - 1)

\* the loop over the digits from 0-based index i on
RECURSIVE BASE58_DecodeDigits(_, _, _)
BASE58_DecodeDigits(encoded_data, i, buf) ==
    IF i >= Len(encoded_data) THEN [bad |-> FALSE, buf |-> buf]
    ELSE LET val == BASE58_Rev(encoded_data[i + 1])
         IN  IF val < 0 THEN [bad |-> TRUE, buf |-> buf]
             ELSE BASE58_DecodeDigits(encoded_data, i + 1,
                      BASE58_DecodeCarry(buf, val, Len(buf) - 1))

\* variant of BASE58_Decode that does not restore the leading zero bytes
BASE58_Decode_NoZeros(encoded_data, np) ==
    IF np # "none" \/ Len(encoded_data) = 0 THEN Fail
    ELSE LET zcount == LeadCount(encoded_data, BASE58_LEADING_ZERO, 0)
             size == BASE58_DEC_LEN(Len(encoded_data) - zcount)
             r == BASE58_DecodeDigits(encoded_data, zcount, Zeros(size))
         IN  IF r.bad THEN Fail
             ELSE LET j == LeadCount(r.buf, 0, 0)
                      out == SubSeq(r.buf, j + 1, size)
                  IN  Done(out, Len(out))

BASE58_Decode(encoded_data, np) ==
    IF np # "none" \/ Len(encoded_data) = 0 THEN Fail
    ELSE LET zcount == LeadCount(encoded_data, BASE58_LEADING_ZERO, 0)
             size == BASE58_DEC_LEN(Len(encoded_data) - zcount)
             r == BASE58_DecodeDigits(encoded_data, zcount, Zeros(size))
         IN  IF r.bad THEN Fail
             ELSE LET j == LeadCount(r.buf, 0, 0)
                      out == Zeros(zcount) \o SubSeq(r.buf, j + 1, size)
                  IN  Done(out, Len(out))

(***************************************************************************)
(* Base64                                                                  *)
(***************************************************************************)
BASE64_PAD_CHAR == 61

BASE64_ENC_TABLE ==
    <<65, 66, 67, 68, 69, 70, 71, 72, 73, 74, 75, 76, 77, 78, 79, 80, 81, 82,
      83, 84, 85, 86, 87, 88, 89, 90, 97, 98, 99, 100, 101, 102, 103, 104,
      105, 106, 107, 108, 109, 110, 111, 112, 113, 114, 115, 116, 117, 118,
      119, 120, 121, 122, 48, 49, 50, 51, 52, 53, 54, 55, 56, 57, 43, 47>>

\* variant of BASE64_URL_SAFE_TABLE: the standard alphabet
BASE64_URL_SAFE_TABLE_Std == BASE64_ENC_TABLE

BASE64_URL_SAFE_TABLE ==
    <<65, 66, 67, 68, 69, 70, 71, 72, 73, 74, 75, 76, 77, 78, 79, 80, 81, 82,
      83, 84, 85, 86, 87, 88, 89, 90, 97, 98, 99, 100, 101, 102, 103, 104,
      105, 106, 107, 108, 109, 110, 111, 112, 113, 114, 115, 116, 117, 118,
      119, 120, 121, 122, 48, 49, 50, 51, 52, 53, 54, 55, 56, 57, 45, 95>>

BASE64_MIN == 43
BASE64_URL_SAFE_MIN == 45
BASE64_MAX == 122

BASE64_REV_TABLE ==
    <<62, -1, -1, -1, 63, 52, 53, 54, 55, 56, 57, 58, 59, 60, 61, -1, -1, -1,
      -2, -1, -1, -1, 0, 1, 2, 3, 4, 5, 6, 7, 8, 9, 10, 11, 12, 13, 14, 15,
      16, 17, 18, 19, 20, 21, 22, 23, 24, 25, -1, -1, -1, -1, -1, -1, 26, 27,
      28, 29, 30, 31, 32, 33, 34, 35, 36, 37, 38, 39, 40, 41, 42, 43, 44, 45,
      46, 47, 48, 49, 50, 51>>

\* variant of BASE64_REV_URL_SAFE_TABLE: the standard table from '-' on
BASE64_REV_URL_SAFE_TABLE_Std == [k \in 1..78 |-> BASE64_REV_TABLE[k + 2]]

BASE64_REV_URL_SAFE_TABLE ==
    <<62, -1, -1, 52, 53, 54, 55, 56, 57, 58, 59, 60, 61, -1, -1, -1, -1, -1,
      -1, -1, 0, 1, 2, 3, 4, 5, 6, 7, 8, 9, 10, 11, 12, 13, 14, 15, 16, 17,
      18, 19, 20, 21, 22, 23, 24, 25, -1, -1, -1, -1, 63, -1, 26, 27, 28, 29,
      30, 31, 32, 33, 34, 35, 36, 37, 38, 39, 40, 41, 42, 43, 44, 45, 46, 47,
      48, 49, 50, 51>>

\* raw_data[i + k] of the C code or 0 past the end; i is 1-based here
BASE64_In(raw_data, i, k) == IF i + k <= Len(raw_data) THEN raw_data[i + k] ELSE 0

\* the characters of the group that starts at i (tiny_cbase.c:376-390)
BASE64_EncodeGroup(raw_data, i, enc_table, no_pad) ==
    LET buf24 == BitOr(BASE64_In(raw_data, i, 0) * 65536,
                 BitOr(BASE64_In(raw_data, i, 1) * 256,
                       BASE64_In(raw_data, i, 2)))
        remaining == Len(raw_data) - (i - 1)
    IN  <<enc_table[BitAnd(Shr(buf24, 18), 63) + 1],
          enc_table[BitAnd(Shr(buf24, 12), 63) + 1]>>
        \o (IF remaining > 1 THEN <<enc_table[BitAnd(Shr(buf24, 6), 63) + 1]>>
            ELSE IF ~no_pad THEN <<BASE64_PAD_CHAR>>
            ELSE <<>>)
        \o (IF remaining > 2 THEN <<enc_table[BitAnd(buf24, 63) + 1]>>
            ELSE IF ~no_pad THEN <<BASE64_PAD_CHAR>>
            ELSE <<>>)

RECURSIVE BASE64_EncodeLoop(_, _, _, _)
BASE64_EncodeLoop(raw_data, i, enc_table, no_pad) ==
    IF i > Len(raw_data) THEN <<>>
    ELSE BASE64_EncodeGroup(raw_data, i, enc_table, no_pad)
         \o BASE64_EncodeLoop(raw_data, i + 3, enc_table, no_pad)

BASE64_Encode(raw_data, np, mode_flags) ==
    IF np # "none" \/ Len(raw_data) = 0 THEN Fail
    ELSE LET url_safe == BitAnd(mode_flags, BASE64_URL_ENC) # 0
             no_pad == BitAnd(mode_flags, BASE64_NOPAD_ENC) # 0
             enc_table == IF url_safe THEN BASE64_URL_SAFE_TABLE ELSE BASE64_ENC_TABLE
             text == BASE64_EncodeLoop(raw_data, 1, enc_table, no_pad)
         IN  Done(text \o <<NUL>>, Len(text))

BASE64_EncodeStd(data, np) == BASE64_Encode(data, np, BASE64_STD_ENC)

BASE64_EncodeStdNoPad(data, np) ==
    BASE64_Encode(data, np, BitOr(BASE64_STD_ENC, BASE64_NOPAD_ENC))

BASE64_EncodeUrl(data, np) == BASE64_Encode(data, np, BASE64_URL_ENC)

BASE64_EncodeUrlNoPad(data, np) ==
    BASE64_Encode(data, np, BitOr(BASE64_URL_ENC, BASE64_NOPAD_ENC))

BASE64_Rev(c, start_char, rev_table) ==
    IF c = BASE64_PAD_CHAR THEN 0
    ELSE IF c >= start_char /\ c <= BASE64_MAX
    THEN rev_table[c - start_char + 1]
    ELSE -1

\* the inner loop over j = 0..3 of the group at i
RECURSIVE BASE64_DecodeGroup(_, _, _, _, _, _, _)
BASE64_DecodeGroup(encoded_data, i, j, buf24, valid_chars, start_char, rev_table) ==
    IF j >= 4 THEN [bad |-> FALSE, buf24 |-> buf24, valid_chars |-> valid_chars]
    ELSE LET c == IF i + j <= Len(encoded_data) THEN encoded_data[i + j]
                  ELSE BASE64_PAD_CHAR
             val == BASE64_Rev(c, start_char, rev_table)
         IN  IF val < 0
             THEN [bad |-> TRUE, buf24 |-> buf24, valid_chars |-> valid_chars]
             ELSE BASE64_DecodeGroup(encoded_data, i, j + 1,
                      BitOr(buf24, val * Pow2(18 - j * 6)),
                      IF c # BASE64_PAD_CHAR THEN valid_chars + 1 ELSE valid_chars,
                      start_char, rev_table)

\* the bytes one group writes (tiny_cbase.c:438-440)
BASE64_GroupBytes(buf24, valid_chars) ==
    (IF valid_chars >= 2 THEN <<BitAnd(Shr(buf24, 16), 255)>> ELSE <<>>) \o
    (IF valid_chars >= 3 THEN <<BitAnd(Shr(buf24, 8), 255)>> ELSE <<>>) \o
    (IF valid_chars >= 4 THEN <<BitAnd(buf24, 255)>> ELSE <<>>)

\* variant of BASE64_DecodeLoop that stores the count of bytes written so
\* far in the length variable before it returns false
RECURSIVE BASE64_DecodeLoop_StoresLength(_, _, _, _, _)
BASE64_DecodeLoop_StoresLength(encoded_data, i, out, start_char, rev_table) ==
    IF i > Len(encoded_data) THEN Done(out, Len(out))
    ELSE LET g == BASE64_DecodeGroup(encoded_data, i, 0, 0, 0, start_char, rev_table)
         IN  IF g.bad
             THEN [ok |-> FALSE, out |-> out, wlen |-> TRUE, len |-> Len(out)]
             ELSE BASE64_DecodeLoop_StoresLength(encoded_data, i + 4,
                      out \o BASE64_GroupBytes(g.buf24, g.valid_chars),
                      start_char, rev_table)

RECURSIVE BASE64_DecodeLoop(_, _, _, _, _)
BASE64_DecodeLoop(encoded_data, i, out, start_char, rev_table) ==
    IF i > Len(encoded_data) THEN Done(out, Len(out))
    ELSE LET g == BASE64_DecodeGroup(encoded_data, i, 0, 0, 0, start_char, rev_table)
         IN  IF g.bad
             THEN [ok |-> FALSE, out |-> out, wlen |-> FALSE, len |-> 0]
             ELSE BASE64_DecodeLoop(encoded_data, i + 4,
                      out \o BASE64_GroupBytes(g.buf24, g.valid_chars),
                      start_char, rev_table)

BASE64_Decode(encoded_data, np, mode_flags) ==
    IF np # "none" \/ Len(encoded_data) = 0 THEN Fail
    ELSE LET isStd == BitAnd(mode_flags, BASE64_STD_DEC) # 0
             isUrlSafe == BitAnd(mode_flags, BASE64_URL_DEC) # 0
             noPad == BitAnd(mode_flags, BASE64_NOPAD_DEC) # 0
             start_char == IF isUrlSafe THEN BASE64_URL_SAFE_MIN ELSE BASE64_MIN
             rev_table == IF isUrlSafe THEN BASE64_REV_URL_SAFE_TABLE
                          ELSE BASE64_REV_TABLE
         IN  IF (isStd \/ isUrlSafe) /\ ~noPad /\ Len(encoded_data) % 4 # 0
             THEN Fail
             ELSE BASE64_DecodeLoop(encoded_data, 1, <<>>, start_char, rev_table)

BASE64_DecodeStd(encoded_data, np) == BASE64_Decode(encoded_data, np, BASE64_STD_DEC)

\* the no-pad decode wrappers pass BASE64_NOPAD_ENC (tiny_cbase.h:163, 177)
BASE64_DecodeStdNoPad(encoded_data, np) ==
    BASE64_Decode(encoded_data, np, BitOr(BASE64_STD_DEC, BASE64_NOPAD_ENC))

BASE64_DecodeUrl(encoded_data, np) == BASE64_Decode(encoded_data, np, BASE64_URL_DEC)

BASE64_DecodeUrlNoPad(encoded_data, np) ==
    BASE64_Decode(encoded_data, np, BitOr(BASE64_URL_DEC, BASE64_NOPAD_ENC))

(***************************************************************************)
(* uint32_t as two 16-bit halves <<high, low>> (Base85's group value).     *)
(***************************************************************************)
U32Zero == <<0, 0>>

\* 0x20202020
U32Spaces == <<8224, 8224>>

\* (b0 << 24) | (b1 << 16) | (b2 << 8) | b3
U32FromBytes(b0, b1, b2, b3) == <<BitOr(b0 * 256, b1), BitOr(b2 * 256, b3)>>

\* (uint8_t)(value >> (24 - 8 * k)), k = 0..3
U32Byte(value, k) ==
    IF k = 0 THEN BitAnd(Shr(value[1], 8), 255)
    ELSE IF k = 1 THEN BitAnd(value[1], 255)
    ELSE IF k = 2 THEN BitAnd(Shr(value[2], 8), 255)
    ELSE BitAnd(value[2], 255)

\* variant of U32MulAdd that stops at 0xFFFFFFFF instead of wrapping
U32MulAdd_Saturating(value, m, a) ==
    LET lo == value[2] * m + a
        hi == value[1] * m + lo \div 65536
    IN  IF hi >= 65536 THEN <<65535, 65535>> ELSE <<hi, lo % 65536>>

\* value * m + a in uint32_t arithmetic (wraps at 2^32)
U32MulAdd(value, m, a) ==
    LET lo == value[2] * m + a
        hi == value[1] * m + lo \div 65536
    IN  <<hi % 65536, lo % 65536>>

\* value / d and value % d for a small divisor
U32Div(value, d) ==
    <<value[1] \div d, ((value[1] % d) * 65536 + value[2]) \div d>>

U32Mod(value, d) == ((value[1] % d) * 65536 + value[2]) % d

(***************************************************************************)
(* Base85                                                                  *)
(***************************************************************************)
ASCII85_ZERO_SHORTCUT == 122
ASCII85_SPACE_SHORTCUT == 121

BASE85_Z85_ENC_TABLE ==
    <<48, 49, 50, 51, 52, 53, 54, 55, 56, 57, 97, 98, 99, 100, 101, 102, 103,
      104, 105, 106, 107, 108, 109, 110, 111, 112, 113, 114, 115, 116, 117,
      118, 119, 120, 121, 122, 65, 66, 67, 68, 69, 70, 71, 72, 73, 74, 75, 76,
      77, 78, 79, 80, 81, 82, 83, 84, 85, 86, 87, 88, 89, 90, 46, 45, 58, 43,
      61, 94, 33, 47, 42, 63, 38, 60, 62, 40, 41, 91, 93, 123, 125, 64, 37,
      36, 35>>

BASE85_ASCII85_MIN == 33
BASE85_Z85_MIN == 33
BASE85_ASCII85_MAX == 117
BASE85_Z85_MAX == 125

BASE85_ASCII85_REV_TABLE ==
    <<0, 1, 2, 3, 4, 5, 6, 7, 8, 9, 10, 11, 12, 13, 14, 15, 16, 17, 18, 19,
      20, 21, 22, 23, 24, 25, 26, 27, 28, 29, 30, 31, 32, 33, 34, 35, 36, 37,
      38, 39, 40, 41, 42, 43, 44, 45, 46, 47, 48, 49, 50, 51, 52, 53, 54, 55,
      56, 57, 58, 59, 60, 61, 62, 63, 64, 65, 66, 67, 68, 69, 70, 71, 72, 73,
      74, 75, 76, 77, 78, 79, 80, 81, 82, 83, 84>>

BASE85_Z85_REV_TABLE ==
    <<68, -1, 84, 83, 82, 72, -1, 75, 76, 70, 65, -1, 63, 62, 69, 0, 1, 2, 3,
      4, 5, 6, 7, 8, 9, 64, -1, 73, 66, 74, 71, 81, 36, 37, 38, 39, 40, 41,
      42, 43, 44, 45, 46, 47, 48, 49, 50, 51, 52, 53, 54, 55, 56, 57, 58, 59,
      60, 61, 77, -1, 78, 67, -1, -1, 10, 11, 12, 13, 14, 15, 16, 17, 18, 19,
      20, 21, 22, 23, 24, 25, 26, 27, 28, 29, 30, 31, 32, 33, 34, 35, 79, -1,
      80>>

write_u32_be(value) ==
    <<U32Byte(value, 0), U32Byte(value, 1), U32Byte(value, 2), U32Byte(value, 3)>>

\* the big-endian word at in[i..i+3]; i is 1-based here
read_u32_be(in, i) == U32FromBytes(in[i], in[i + 1], in[i + 2], in[i + 3])

\* the five base-85 digits of tmp, most significant first (enc[0..4])
BASE85_Digits(tmp) ==
    LET t3 == U32Div(tmp, 85)
        t2 == U32Div(t3, 85)
        t1 == U32Div(t2, 85)
        t0 == U32Div(t1, 85)
    IN  <<U32Mod(t0, 85), U32Mod(t1, 85), U32Mod(t2, 85), U32Mod(t3, 85),
          U32Mod(tmp, 85)>>

\* a digit as a character: the Z85 table or the offset 33
BASE85_DigitChar(d, isZ85) == IF isZ85 THEN BASE85_Z85_ENC_TABLE[d + 1] ELSE d + 33

\* variant of BASE85_EncodeBlock that takes the space shortcut in every
\* Ascii85 mode
BASE85_EncodeBlock_AlwaysY(buf, isZ85, useExt) ==
    IF ~isZ85 /\ buf = U32Zero THEN <<ASCII85_ZERO_SHORTCUT>>
    ELSE IF ~isZ85 /\ buf = U32Spaces THEN <<ASCII85_SPACE_SHORTCUT>>
    ELSE LET enc == BASE85_Digits(buf)
         IN  [j \in 1..5 |-> BASE85_DigitChar(enc[j], isZ85)]

\* the characters written for one full 4-byte block (tiny_cbase.c:525-552)
BASE85_EncodeBlock(buf, isZ85, useExt) ==
    IF ~isZ85 /\ buf = U32Zero THEN <<ASCII85_ZERO_SHORTCUT>>
    ELSE IF ~isZ85 /\ useExt /\ buf = U32Spaces THEN <<ASCII85_SPACE_SHORTCUT>>
    ELSE LET enc == BASE85_Digits(buf)
         IN  [j \in 1..5 |-> BASE85_DigitChar(enc[j], isZ85)]

\* the loop over the full blocks; i is the 0-based index of the C code
RECURSIVE BASE85_EncodeBlocks(_, _, _, _)
BASE85_EncodeBlocks(data, i, isZ85, useExt) ==
    IF i + 3 < Len(data)
    THEN BASE85_EncodeBlock(read_u32_be(data, i + 1), isZ85, useExt)
         \o BASE85_EncodeBlocks(data, i + 4, isZ85, useExt)
    ELSE <<>>

\* data[i + j] for j < tail, 0 otherwise; i is 0-based
BASE85_TailByte(data, i, j) == IF i + j < Len(data) THEN data[i + j + 1] ELSE 0

\* variant of BASE85_EncodeTail that writes as many digits as tail bytes
BASE85_EncodeTail_Short(data, i, isZ85) ==
    LET tail == Len(data) - i
    IN  IF ~isZ85 /\ tail > 0
        THEN LET buf == U32FromBytes(BASE85_TailByte(data, i, 0),
                                     BASE85_TailByte(data, i, 1),
                                     BASE85_TailByte(data, i, 2),
                                     BASE85_TailByte(data, i, 3))
                 enc == BASE85_Digits(buf)
             IN  [j \in 1..tail |-> enc[j] + 33]
        ELSE <<>>

\* the characters written for the partial tail (tiny_cbase.c:556-575)
BASE85_EncodeTail(data, i, isZ85) ==
    LET tail == Len(data) - i
    IN  IF ~isZ85 /\ tail > 0
        THEN LET buf == U32FromBytes(BASE85_TailByte(data, i, 0),
                                     BASE85_TailByte(data, i, 1),
                                     BASE85_TailByte(data, i, 2),
                                     BASE85_TailByte(data, i, 3))
                 enc == BASE85_Digits(buf)
             IN  [j \in 1..(tail + 1) |-> enc[j] + 33]
        ELSE <<>>

\* the argument check of the encoder (tiny_cbase.c:508)
BASE85_EncodeArgsBad(data, np) == np # "none"

BASE85_Encode(data, np, mode_flags) ==
    IF BASE85_EncodeArgsBad(data, np) THEN Fail
    ELSE LET isZ85 == BitAnd(mode_flags, BASE85_Z85_ENC) # 0
             useExt == BitAnd(mode_flags, BASE85_EXT_ENC) # 0
         IN  IF isZ85 /\ Len(data) % 4 # 0 THEN Fail
             ELSE LET full == 4 * (Len(data) \div 4)
                      text == BASE85_EncodeBlocks(data, 0, isZ85, useExt)
                              \o BASE85_EncodeTail(data, full, isZ85)
                  IN  Done(text \o <<NUL>>, Len(text))

BASE85_EncodeStd(data, np) == BASE85_Encode(data, np, BASE85_STD_ENC)

BASE85_EncodeExt(data, np) == BASE85_Encode(data, np, BASE85_EXT_ENC)

BASE85_EncodeZ85(data, np) == BASE85_Encode(data, np, BASE85_Z85_ENC)

\* isspace() in the C locale: space, \t, \n, \v, \f, \r
isspace(c) == c \in {32, 9, 10, 11, 12, 13}

BASE85_Rev(c, isZ85) ==
    LET min_char == IF isZ85 THEN BASE85_Z85_MIN ELSE BASE85_ASCII85_MIN
        max_char == IF isZ85 THEN BASE85_Z85_MAX ELSE BASE85_ASCII85_MAX
        rev_table == IF isZ85 THEN BASE85_Z85_REV_TABLE ELSE BASE85_ASCII85_REV_TABLE
    IN  IF c >= min_char /\ c <= max_char THEN rev_table[c - min_char + 1] ELSE -1

\* variant of BASE85_PadValue that pads the partial block with digit 0
RECURSIVE BASE85_PadValue_Zero(_, _)
BASE85_PadValue_Zero(value, j) ==
    IF j < 5 THEN BASE85_PadValue_Zero(U32MulAdd(value, 85, 0), j + 1) ELSE value

\* value after the padding loop of the partial final block (j = count..4)
RECURSIVE BASE85_PadValue(_, _)
BASE85_PadValue(value, j) ==
    IF j < 5 THEN BASE85_PadValue(U32MulAdd(value, 85, 84), j + 1) ELSE value

\* the end of the decoder, after the scan (tiny_cbase.c:652-667)
BASE85_DecodeFinish(out, value, count, isZ85) ==
    IF ~isZ85 /\ count > 0
    THEN LET v == BASE85_PadValue(value, count)
             o == out \o [j \in 1..(count - 1) |-> U32Byte(v, j - 1)]
         IN  Done(o, Len(o))
    ELSE IF isZ85 /\ count # 0
    THEN [ok |-> FALSE, out |-> out, wlen |-> FALSE, len |-> 0]
    ELSE Done(out, Len(out))

\* the scan over the characters from 1-based index i on (tiny_cbase.c:614-650)
RECURSIVE BASE85_DecodeScan(_, _, _, _, _, _, _, _)
BASE85_DecodeScan(encoded_data, i, out, value, count, isZ85, useExt, ignoreWs) ==
    IF i > Len(encoded_data) THEN BASE85_DecodeFinish(out, value, count, isZ85)
    ELSE LET c == encoded_data[i]
         IN  IF ignoreWs /\ isspace(c)
             THEN BASE85_DecodeScan(encoded_data, i + 1, out, value, count,
                                    isZ85, useExt, ignoreWs)
             ELSE IF ~isZ85 /\ c = ASCII85_ZERO_SHORTCUT /\ count = 0
             THEN BASE85_DecodeScan(encoded_data, i + 1,
                                    out \o write_u32_be(U32Zero), value, count,
                                    isZ85, useExt, ignoreWs)
             ELSE IF ~isZ85 /\ useExt /\ c = ASCII85_SPACE_SHORTCUT /\ count = 0
             THEN BASE85_DecodeScan(encoded_data, i + 1,
                                    out \o write_u32_be(U32Spaces), value, count,
                                    isZ85, useExt, ignoreWs)
             ELSE LET val == BASE85_Rev(c, isZ85)
                  IN  IF val < 0
                      THEN [ok |-> FALSE, out |-> out, wlen |-> FALSE, len |-> 0]
                      ELSE LET nv == U32MulAdd(value, 85, val)
                           IN  IF count + 1 = 5
                               THEN BASE85_DecodeScan(encoded_data, i + 1,
                                        out \o write_u32_be(nv), U32Zero, 0,
                                        isZ85, useExt, ignoreWs)
                               ELSE BASE85_DecodeScan(encoded_data, i + 1,
                                        out, nv, count + 1,
                                        isZ85, useExt, ignoreWs)

BASE85_Decode(encoded_data, np, mode_flags) ==
    IF np # "none" \/ Len(encoded_data) = 0 THEN Fail
    ELSE LET isZ85 == BitAnd(mode_flags, BASE85_Z85_DEC) # 0
             useExt == BitAnd(mode_flags, BASE85_EXT_DEC) # 0
             ignoreWs == BitAnd(mode_flags, BASE85_IGNORE_WS) # 0
         IN  IF isZ85 /\ Len(encoded_data) % 5 # 0 THEN Fail
             ELSE BASE85_DecodeScan(encoded_data, 1, <<>>, U32Zero, 0,
                                    isZ85, useExt, ignoreWs)

BASE85_DecodeStd(encoded_data, np) == BASE85_Decode(encoded_data, np, BASE85_STD_DEC)

BASE85_DecodeExt(encoded_data, np) == BASE85_Decode(encoded_data, np, BASE85_EXT_DEC)

BASE85_DecodeZ85(encoded_data, np) == BASE85_Decode(encoded_data, np, BASE85_Z85_DEC)

BASE85_DecodeStdIgnoreWS(encoded_data, np) ==
    BASE85_Decode(encoded_data, np, BitOr(BASE85_STD_DEC, BASE85_IGNORE_WS))

(***************************************************************************)
(* Capacity helpers (tiny_cbase.h).                                        *)
(***************************************************************************)
BASE16_ENC_LEN(data_len) == data_len * 2 + 2

BASE16_DEC_LEN(data_len) == data_len \div 2 + 1

BASE32_ENC_LEN(data_len) == 8 * ((data_len + 4) \div 5) + 2

BASE32_DEC_LEN(data_len) == (data_len * 5 + 7) \div 8 + 1

\* variant of BASE64_ENC_LEN that rounds the group count down
BASE64_ENC_LEN_RoundDown(data_len) == 4 * (data_len \div 3) + 2

BASE64_ENC_LEN(data_len) == 4 * ((data_len + 2) \div 3) + 2

BASE64_DEC_LEN(data_len) == ((data_len + 3) \div 4) * 3 + 1

ASCII85_ENC_LEN(data_len) == ((data_len + 3) \div 4) * 5 + 2

ASCII85_DEC_LEN(data_len) == (data_len \div 5) * 4 + 4 + 1

Z85_ENC_LEN(data_len) == (data_len \div 4) * 5 + 2

Z85_DEC_LEN(data_len) == (data_len \div 5) * 4 + 1

BASE_GetEncodeLen(data_len, mode) ==
    IF data_len = 0 THEN 0
    ELSE IF BitAnd(mode, BitOr(BASE16_UPPER, BASE16_LOWER)) # 0
    THEN BASE16_ENC_LEN(data_len)
    ELSE IF BitAnd(mode, BASE32_ENC) # 0 THEN BASE32_ENC_LEN(data_len)
    ELSE IF BitAnd(mode, BASE58_ENC) # 0 THEN BASE58_ENC_LEN(data_len)
    ELSE IF BitAnd(mode, BitOr(BASE64_STD_ENC,
                         BitOr(BASE64_URL_ENC, BASE64_NOPAD_ENC))) # 0
    THEN BASE64_ENC_LEN(data_len)
    ELSE IF BitAnd(mode, BitOr(BASE85_STD_ENC,
                         BitOr(BASE85_EXT_ENC, BASE85_Z85_ENC))) # 0
    THEN (IF BitAnd(mode, BASE85_Z85_ENC) # 0 THEN Z85_ENC_LEN(data_len)
          ELSE ASCII85_ENC_LEN(data_len))
    ELSE 0

BASE_GetDecodeLen(data_len, mode) ==
    IF data_len = 0 THEN 0
    ELSE IF BitAnd(mode, BASE16_DECODE) # 0 THEN BASE16_DEC_LEN(data_len)
    ELSE IF BitAnd(mode, BASE32_DEC) # 0 THEN BASE32_DEC_LEN(data_len)
    ELSE IF BitAnd(mode, BASE58_DEC) # 0 THEN BASE58_DEC_LEN(data_len)
    ELSE IF BitAnd(mode, BitOr(BASE64_STD_DEC,
                         BitOr(BASE64_URL_DEC, BASE64_NOPAD_DEC))) # 0
    THEN BASE64_DEC_LEN(data_len)
    ELSE IF BitAnd(mode, BitOr(BASE85_STD_DEC,
                         BitOr(BASE85_EXT_DEC, BASE85_Z85_DEC))) # 0
    THEN (IF BitAnd(mode, BASE85_Z85_DEC) # 0 THEN Z85_DEC_LEN(data_len)
          ELSE ASCII85_DEC_LEN(data_len))
    ELSE 0

(***************************************************************************)
(* The caller.                                                             *)
(***************************************************************************)
SeqsUpTo(S, n) == UNION {[1..k -> S] : k \in 0..n}

Ones(n) == [k \in 1..n |-> BASE58_LEADING_ZERO]

\* inputs named in the documentation: "f", "Ma", "Man", 00 00 01
NamedInputs == {<<102>>, <<77, 97>>, <<77, 97, 110>>, <<0, 0, 1>>}

\* two byte patterns of several groups; their prefixes of 6 to 11 bytes end
\* in every partial-group size of every codec
LongPatterns ==
    {<<32, 32, 32, 32, 0, 0, 0, 0, 255, 255, 255>>,
     <<0, 0, 255, 254, 1, 128, 77, 97, 110, 10, 200>>}

LongInputs == {SubSeq(p, 1, n) : p \in LongPatterns, n \in 6..11}

RawInputs == SeqsUpTo(ByteVals, MaxRawLen) \cup NamedInputs \cup LongInputs

\* runs of '1', alone and followed by the digit '2'
OnesTexts == {Ones(n) : n \in 1..MaxOnes} \cup {Ones(n) \o <<50>> : n \in 1..MaxOnes}

\* one Base32 group of k symbols and 8 - k pad characters, for every k, alone
\* and after a full group; the same symbols without the pad characters
Base32Symbols == <<77, 90, 88, 87, 54, 89, 84, 66>>

Base32Groups ==
    LET pads == [k \in 1..8 |-> BASE32_PAD_CHAR]
        full == [k \in 1..8 |-> 65]
        grp(k) == SubSeq(Base32Symbols, 1, k) \o SubSeq(pads, 1, 8 - k)
    IN  {grp(k) : k \in 0..8} \cup {full \o grp(k) : k \in 0..8}
        \cup {SubSeq(Base32Symbols, 1, k) : k \in 5..8}

\* texts that every codec accepts (the letter 'A', 8 and 5 times) with one
\* position overwritten by each of the 256 byte values
ClosureBases == {[k \in 1..8 |-> 65], [k \in 1..5 |-> 65]}

ClosureTexts ==
    UNION {{[s EXCEPT ![p] = b] : p \in 1..Len(s), b \in 0..255} : s \in ClosureBases}

\* the six characters isspace accepts in the C locale
Whitespace == {9, 10, 11, 12, 13, 32}

\* a text with one whitespace character inserted at every position, and a
\* text of whitespace only
WhitespaceTexts ==
    UNION {{SubSeq(s, 1, p) \o <<w>> \o SubSeq(s, p + 1, Len(s)) :
                p \in 0..Len(s), w \in Whitespace} :
           s \in {[k \in 1..5 |-> 65], <<122, 65, 65>>}}
    \cup {<<32>>, <<10, 32>>}

\* groups of five Base85 digits around the largest 32-bit value: "uuuuu",
\* "s8W-!" (2^32 - 1 in Ascii85), "s8W-\"" (2^32), "#####" (the largest Z85
\* group), and a large group followed by a second group
WrapTexts ==
    {<<117, 117, 117, 117, 117>>, <<115, 56, 87, 45, 33>>, <<115, 56, 87, 45, 34>>,
     <<35, 35, 35, 35, 35>>,
     <<117, 117, 117, 117, 117, 115, 56, 87, 45, 33>>}

Texts ==
    SeqsUpTo(TextChars, MaxTextLen) \cup OnesTexts \cup Base32Groups
    \cup ClosureTexts \cup WhitespaceTexts \cup WrapTexts

NullArgs == {"data", "out", "len"}

\* the capacities the caller may announce for input_len bytes
Caps(input_len) == (0..MaxCap) \cup {BASE58_ENC_LEN(input_len)}

\* the tables in read-only memory that the stepwise calls index
RoTables ==
    [BASE58_ENC_TABLE |-> BASE58_ENC_TABLE,
     BASE85_ASCII85_REV_TABLE |-> BASE85_ASCII85_REV_TABLE,
     BASE85_Z85_REV_TABLE |-> BASE85_Z85_REV_TABLE]

InitEnc ==
    /\ pc = "start"
    /\ \/ raw \in RawInputs /\ nullarg = "none"
       \/ raw \in SeqsUpTo(ByteVals, MaxNullLen) /\ nullarg \in NullArgs
    /\ enc_len \in Caps(Len(raw))
    /\ encoded = <<>>

InitDec ==
    /\ pc = "loaded"
    /\ raw = <<>>
    /\ \/ encoded \in Texts /\ nullarg = "none"
       \/ encoded \in SeqsUpTo(TextChars, MaxNullLen) /\ nullarg \in NullArgs
    /\ enc_len = Len(encoded)

Init ==
    /\ InitEnc \/ InitDec
    /\ fmt = "none"
    /\ dfmt = "none"
    /\ cap = 0
    /\ decoded = <<>>
    /\ dec_len = MAX_BUF
    /\ ok = FALSE
    /\ heap = <<>>
    /\ frame = <<>>
    /\ rodata = RoTables

\* a call of an encode entry point on input_buf that returned r
EncodeCall(name, r) ==
    /\ pc = "start"
    /\ pc' = "encoded"
    /\ fmt' = name
    /\ ok' = r.ok
    /\ encoded' = Store(encoded, r.out)
    /\ enc_len' = IF r.wlen THEN r.len ELSE enc_len
    /\ UNCHANGED <<dfmt, nullarg, raw, decoded, dec_len, heap, frame, rodata>>

Call_BASE16_EncodeUpper ==
    EncodeCall("BASE16_EncodeUpper", BASE16_EncodeUpper(raw, nullarg)) /\ UNCHANGED cap

Call_BASE16_EncodeLower ==
    EncodeCall("BASE16_EncodeLower", BASE16_EncodeLower(raw, nullarg)) /\ UNCHANGED cap

Call_BASE32_EncodeStd ==
    EncodeCall("BASE32_EncodeStd", BASE32_EncodeStd(raw, nullarg)) /\ UNCHANGED cap

Call_BASE32_EncodeStdNoPad ==
    EncodeCall("BASE32_EncodeStdNoPad", BASE32_EncodeStdNoPad(raw, nullarg))
    /\ UNCHANGED cap

Call_BASE58_Encode ==
    /\ EncodeCall("BASE58_Encode", BASE58_Encode(raw, nullarg, enc_len))
    /\ cap' = enc_len

\* the second call of the capacity negotiation: same input, the capacity the
\* failed call stored in the length variable
Retry_BASE58_Encode ==
    /\ pc = "encoded" /\ fmt = "BASE58_Encode" /\ ~ok
    /\ nullarg = "none" /\ Len(raw) > 0
    /\ LET r == BASE58_Encode(raw, nullarg, enc_len)
       IN  /\ pc' = "retried"
           /\ ok' = r.ok
           /\ encoded' = Store(encoded, r.out)
           /\ enc_len' = IF r.wlen THEN r.len ELSE enc_len
           /\ cap' = enc_len
    /\ UNCHANGED <<fmt, dfmt, nullarg, raw, decoded, dec_len, heap, frame, rodata>>

Call_BASE64_EncodeStd ==
    EncodeCall("BASE64_EncodeStd", BASE64_EncodeStd(raw, nullarg)) /\ UNCHANGED cap

Call_BASE64_EncodeStdNoPad ==
    EncodeCall("BASE64_EncodeStdNoPad", BASE64_EncodeStdNoPad(raw, nullarg))
    /\ UNCHANGED cap

Call_BASE64_EncodeUrl ==
    EncodeCall("BASE64_EncodeUrl", BASE64_EncodeUrl(raw, nullarg)) /\ UNCHANGED cap

Call_BASE64_EncodeUrlNoPad ==
    EncodeCall("BASE64_EncodeUrlNoPad", BASE64_EncodeUrlNoPad(raw, nullarg))
    /\ UNCHANGED cap

Call_BASE85_EncodeStd ==
    EncodeCall("BASE85_EncodeStd", BASE85_EncodeStd(raw, nullarg)) /\ UNCHANGED cap

Call_BASE85_EncodeExt ==
    EncodeCall("BASE85_EncodeExt", BASE85_EncodeExt(raw, nullarg)) /\ UNCHANGED cap

Call_BASE85_EncodeZ85 ==
    EncodeCall("BASE85_EncodeZ85", BASE85_EncodeZ85(raw, nullarg)) /\ UNCHANGED cap

\* the decode entry points that take the output of an encode entry point
Matching ==
    [BASE16_EncodeUpper |-> {"BASE16_Decode"},
     BASE16_EncodeLower |-> {"BASE16_Decode"},
     BASE32_EncodeStd |-> {"BASE32_DecodeStd"},
     BASE32_EncodeStdNoPad |-> {"BASE32_DecodeStdNoPad"},
     BASE58_Encode |-> {"BASE58_Decode"},
     BASE64_EncodeStd |-> {"BASE64_DecodeStd"},
     BASE64_EncodeStdNoPad |-> {"BASE64_DecodeStdNoPad"},
     BASE64_EncodeUrl |-> {"BASE64_DecodeUrl"},
     BASE64_EncodeUrlNoPad |-> {"BASE64_DecodeUrlNoPad"},
     BASE85_EncodeStd |-> {"BASE85_DecodeStd", "BASE85_DecodeStdIgnoreWS"},
     BASE85_EncodeExt |-> {"BASE85_DecodeExt", "BASE85_Decode_ExtIgnoreWS"},
     BASE85_EncodeZ85 |-> {"BASE85_DecodeZ85", "BASE85_Decode_Z85IgnoreWS"},
     none |-> {}]

\* the text the caller hands to a decoder: encoded[0 .. enc_len-1]
Text == SubSeq(encoded, 1, enc_len)

\* a decoder is called on a text the caller was given, or on the text a
\* successful call of a matching encoder left in the buffer
CanDecode(name) ==
    IF pc = "loaded" THEN TRUE
    ELSE pc \in {"encoded", "retried"} /\ ok /\ name \in Matching[fmt]

\* a call of a decode entry point on the text buffer that returned r: on a
\* text the caller was given, or on the output of the matching encoder
DecodeCall(name, r) ==
    /\ CanDecode(name)
    /\ pc' = IF pc = "loaded" THEN "decoded" ELSE "roundtrip"
    /\ dfmt' = name
    /\ ok' = r.ok
    /\ decoded' = Store(decoded, r.out)
    /\ dec_len' = IF r.wlen THEN r.len ELSE dec_len
    /\ UNCHANGED <<fmt, nullarg, raw, cap, encoded, enc_len, heap, frame, rodata>>

Call_BASE16_Decode == DecodeCall("BASE16_Decode", BASE16_Decode(Text, nullarg))

Call_BASE32_DecodeStd == DecodeCall("BASE32_DecodeStd", BASE32_DecodeStd(Text, nullarg))

Call_BASE32_DecodeStdNoPad ==
    DecodeCall("BASE32_DecodeStdNoPad", BASE32_DecodeStdNoPad(Text, nullarg))

Call_BASE58_Decode == DecodeCall("BASE58_Decode", BASE58_Decode(Text, nullarg))

Call_BASE64_DecodeStd == DecodeCall("BASE64_DecodeStd", BASE64_DecodeStd(Text, nullarg))

Call_BASE64_DecodeStdNoPad ==
    DecodeCall("BASE64_DecodeStdNoPad", BASE64_DecodeStdNoPad(Text, nullarg))

Call_BASE64_DecodeUrl == DecodeCall("BASE64_DecodeUrl", BASE64_DecodeUrl(Text, nullarg))

Call_BASE64_DecodeUrlNoPad ==
    DecodeCall("BASE64_DecodeUrlNoPad", BASE64_DecodeUrlNoPad(Text, nullarg))

Call_BASE85_DecodeStd == DecodeCall("BASE85_DecodeStd", BASE85_DecodeStd(Text, nullarg))

Call_BASE85_DecodeExt == DecodeCall("BASE85_DecodeExt", BASE85_DecodeExt(Text, nullarg))

Call_BASE85_DecodeZ85 == DecodeCall("BASE85_DecodeZ85", BASE85_DecodeZ85(Text, nullarg))

Call_BASE85_DecodeStdIgnoreWS ==
    DecodeCall("BASE85_DecodeStdIgnoreWS", BASE85_DecodeStdIgnoreWS(Text, nullarg))

\* BASE85_Decode called directly with the whitespace flag added to the
\* Extended and the Z85 mode
Call_BASE85_Decode_ExtIgnoreWS ==
    DecodeCall("BASE85_Decode_ExtIgnoreWS",
               BASE85_Decode(Text, nullarg, BitOr(BASE85_EXT_DEC, BASE85_IGNORE_WS)))

Call_BASE85_Decode_Z85IgnoreWS ==
    DecodeCall("BASE85_Decode_Z85IgnoreWS",
               BASE85_Decode(Text, nullarg, BitOr(BASE85_Z85_DEC, BASE85_IGNORE_WS)))

Next ==
    \/ Call_BASE16_EncodeUpper
    \/ Call_BASE16_EncodeLower
    \/ Call_BASE32_EncodeStd
    \/ Call_BASE32_EncodeStdNoPad
    \/ Call_BASE58_Encode
    \/ Retry_BASE58_Encode
    \/ Call_BASE64_EncodeStd
    \/ Call_BASE64_EncodeStdNoPad
    \/ Call_BASE64_EncodeUrl
    \/ Call_BASE64_EncodeUrlNoPad
    \/ Call_BASE85_EncodeStd
    \/ Call_BASE85_EncodeExt
    \/ Call_BASE85_EncodeZ85
    \/ Call_BASE16_Decode
    \/ Call_BASE32_DecodeStd
    \/ Call_BASE32_DecodeStdNoPad
    \/ Call_BASE58_Decode
    \/ Call_BASE64_DecodeStd
    \/ Call_BASE64_DecodeStdNoPad
    \/ Call_BASE64_DecodeUrl
    \/ Call_BASE64_DecodeUrlNoPad
    \/ Call_BASE85_DecodeStd
    \/ Call_BASE85_DecodeExt
    \/ Call_BASE85_DecodeZ85
    \/ Call_BASE85_DecodeStdIgnoreWS
    \/ Call_BASE85_Decode_ExtIgnoreWS
    \/ Call_BASE85_Decode_Z85IgnoreWS

Spec == Init /\ [][Next]_vars

(***************************************************************************)
(* Properties.                                                             *)
(***************************************************************************)
\* the bytes the last decode call reported
Decoded == SubSeq(decoded, 1, dec_len)

\* the decode call succeeded and reported exactly the caller's input bytes
RoundTripOk == ok /\ dec_len = Len(raw) /\ Decoded = raw

Base64Encoders ==
    {"BASE64_EncodeStd", "BASE64_EncodeStdNoPad", "BASE64_EncodeUrl",
     "BASE64_EncodeUrlNoPad"}

\* C1: for every non-empty byte sequence and each of the four Base64
\* variants, the matching decoder applied to the encoder's text returns true
\* and yields exactly the original bytes and length.
C1_Base64RoundTrip ==
    (pc = "roundtrip" /\ fmt \in Base64Encoders /\ Len(raw) > 0) => RoundTripOk

\* the two characters the documented alphabet gives byte b
HexPair(table, b) == <<table[(b \div 16) + 1], table[(b % 16) + 1]>>

\* C2: BASE16_EncodeUpper writes every nibble with 0-9A-F and
\* BASE16_EncodeLower with 0-9a-f: the characters of byte b are
\* alphabet[b >> 4] and alphabet[b & 15] of the selected case.
C2_Base16Alphabet ==
    (pc = "encoded" /\ ok /\ fmt \in {"BASE16_EncodeUpper", "BASE16_EncodeLower"})
    => \A i \in 1..Len(raw) :
           <<encoded[2 * i - 1], encoded[2 * i]>> =
           HexPair(IF fmt = "BASE16_EncodeUpper" THEN BASE16_ENC_TABLE_UPPER
                   ELSE BASE16_ENC_TABLE_LOWER, raw[i])

\* C3: every encode and every decode entry point returns false when a
\* pointer argument is null or the input length is zero; no codec turns an
\* empty input into a successful empty output.
C3_RejectsBadArguments ==
    /\ (pc = "encoded" /\ (nullarg # "none" \/ Len(raw) = 0)) => ~ok
    /\ (pc = "decoded" /\ (nullarg # "none" \/ enc_len = 0)) => ~ok
    /\ (pc = "roundtrip" /\ enc_len = 0) => ~ok

\* the mode flag of each decode entry point for BASE_GetDecodeLen
DecodeMode ==
    [BASE16_Decode |-> BASE16_DECODE,
     BASE32_DecodeStd |-> BASE32_DEC,
     BASE32_DecodeStdNoPad |-> BitOr(BASE32_DEC, BASE32_DEC_NOPAD),
     BASE58_Decode |-> BASE58_DEC,
     BASE64_DecodeStd |-> BASE64_STD_DEC,
     BASE64_DecodeStdNoPad |-> BitOr(BASE64_STD_DEC, BASE64_NOPAD_DEC),
     BASE64_DecodeUrl |-> BASE64_URL_DEC,
     BASE64_DecodeUrlNoPad |-> BitOr(BASE64_URL_DEC, BASE64_NOPAD_DEC),
     BASE85_DecodeStd |-> BASE85_STD_DEC,
     BASE85_DecodeExt |-> BASE85_EXT_DEC,
     BASE85_DecodeZ85 |-> BASE85_Z85_DEC,
     BASE85_DecodeStdIgnoreWS |-> BitOr(BASE85_STD_DEC, BASE85_IGNORE_WS),
     BASE85_Decode_ExtIgnoreWS |-> BitOr(BASE85_EXT_DEC, BASE85_IGNORE_WS),
     BASE85_Decode_Z85IgnoreWS |-> BitOr(BASE85_Z85_DEC, BASE85_IGNORE_WS)]

\* C4: for every format and every accepted text of length n > 0, the number
\* of bytes the decoder writes is at most BASE_GetDecodeLen(n, mode).
C4_DecodeCapacity ==
    (pc \in {"decoded", "roundtrip"} /\ ok /\ enc_len > 0)
    => /\ dec_len <= BASE_GetDecodeLen(enc_len, DecodeMode[dfmt])
       /\ Len(decoded) <= BASE_GetDecodeLen(enc_len, DecodeMode[dfmt])

\* the mode flag of each encode entry point for BASE_GetEncodeLen
EncodeMode ==
    [BASE16_EncodeUpper |-> BASE16_UPPER,
     BASE16_EncodeLower |-> BASE16_LOWER,
     BASE32_EncodeStd |-> BASE32_ENC,
     BASE32_EncodeStdNoPad |-> BitOr(BASE32_ENC, BASE32_ENC_NOPAD),
     BASE58_Encode |-> BASE58_ENC,
     BASE64_EncodeStd |-> BASE64_STD_ENC,
     BASE64_EncodeStdNoPad |-> BitOr(BASE64_STD_ENC, BASE64_NOPAD_ENC),
     BASE64_EncodeUrl |-> BASE64_URL_ENC,
     BASE64_EncodeUrlNoPad |-> BitOr(BASE64_URL_ENC, BASE64_NOPAD_ENC),
     BASE85_EncodeStd |-> BASE85_STD_ENC,
     BASE85_EncodeExt |-> BASE85_EXT_ENC,
     BASE85_EncodeZ85 |-> BASE85_Z85_ENC]

\* C5: for every variant and every accepted input of length n > 0, the
\* characters written plus the terminating NUL are at most
\* BASE_GetEncodeLen(n, mode); BASE58_Encode called with capacity
\* BASE58_ENC_LEN(n) never takes the insufficient-capacity path.
C5_EncodeCapacity ==
    /\ (pc \in {"encoded", "retried"} /\ ok /\ Len(raw) > 0)
       => /\ enc_len + 1 <= BASE_GetEncodeLen(Len(raw), EncodeMode[fmt])
          /\ Len(encoded) <= BASE_GetEncodeLen(Len(raw), EncodeMode[fmt])
    /\ (pc = "encoded" /\ fmt = "BASE58_Encode" /\ nullarg = "none"
        /\ Len(raw) > 0 /\ cap = BASE58_ENC_LEN(Len(raw)))
       => ok

\* a Base58 encoding that fills the bound exactly, from the announced
\* capacity BASE58_ENC_LEN(n)
C5_Witness ==
    /\ pc = "encoded" /\ fmt = "BASE58_Encode" /\ ok
    /\ cap = BASE58_ENC_LEN(Len(raw))
    /\ enc_len + 1 = BASE_GetEncodeLen(Len(raw), BASE58_ENC)
    /\ Len(raw) > 1

(***************************************************************************)
(* The length of the Base58 text of a byte sequence, by schoolbook long    *)
(* division of the base-256 number by 58.                                  *)
(***************************************************************************)
AllZero(s) == \A k \in 1..Len(s) : s[k] = 0

\* the quotient of the base-256 number s[i..] with incoming remainder r
RECURSIVE Ref58Quot(_, _, _)
Ref58Quot(s, i, r) ==
    IF i > Len(s) THEN <<>>
    ELSE <<(r * 256 + s[i]) \div 58>> \o Ref58Quot(s, i + 1, (r * 256 + s[i]) % 58)

\* the number of base-58 digits of the number s
RECURSIVE Ref58Count(_)
Ref58Count(s) == IF AllZero(s) THEN 0 ELSE 1 + Ref58Count(Ref58Quot(s, 1, 0))

Ref58Len(s) == LeadCount(s, 0, 0) + Ref58Count(s)

\* C6: BASE58_Encode on a valid input with capacity <= L (the encoded
\* length) returns false, writes nothing and stores L + 1; a second call
\* with that capacity returns true, writes L characters plus NUL and
\* stores L.
C6_Base58Negotiation ==
    /\ (pc = "encoded" /\ fmt = "BASE58_Encode" /\ nullarg = "none"
        /\ Len(raw) > 0 /\ cap <= Ref58Len(raw))
       => (~ok /\ encoded = <<>> /\ enc_len = Ref58Len(raw) + 1)
    /\ pc = "retried"
       => /\ cap = Ref58Len(raw) + 1
          /\ ok
          /\ enc_len = Ref58Len(raw)
          /\ Len(encoded) = enc_len + 1
          /\ encoded[enc_len + 1] = NUL
          /\ \A k \in 1..enc_len : encoded[k] # NUL

\* the second call succeeded on an input with leading zeros and digits
C6_Witness ==
    /\ pc = "retried" /\ ok
    /\ enc_len = Ref58Len(raw)
    /\ LeadCount(raw, 0, 0) > 0 /\ ~AllZero(raw)

\* C7: BASE58_Decode applied to the output of a successful BASE58_Encode
\* returns true and yields exactly the original bytes, with the same number
\* of leading zero bytes.
C7_Base58RoundTrip ==
    (pc = "roundtrip" /\ fmt = "BASE58_Encode" /\ Len(raw) > 0)
    => (RoundTripOk /\ LeadCount(Decoded, 0, 0) = LeadCount(raw, 0, 0))

\* 00 00 01 went through the encoder and the decoder
C7_Witness ==
    /\ pc = "roundtrip" /\ fmt = "BASE58_Encode" /\ ok
    /\ raw = <<0, 0, 1>> /\ Text = <<49, 49, 50>> /\ Decoded = raw

\* C8: Ascii85 and Extended round-trip every non-empty byte sequence, and
\* Z85 every non-empty sequence whose length is a multiple of 4; each decode
\* returns true with the original length.
C8_Base85RoundTrip ==
    /\ (pc = "encoded" /\ nullarg = "none" /\ Len(raw) > 0
        /\ (fmt \in {"BASE85_EncodeStd", "BASE85_EncodeExt"}
            \/ (fmt = "BASE85_EncodeZ85" /\ Len(raw) % 4 = 0)))
       => ok
    /\ (pc = "roundtrip" /\ Len(raw) > 0
        /\ fmt \in {"BASE85_EncodeStd", "BASE85_EncodeExt", "BASE85_EncodeZ85"}
        /\ dfmt \in {"BASE85_DecodeStd", "BASE85_DecodeExt", "BASE85_DecodeZ85"})
       => RoundTripOk

\* an all-space group with a tail went through Extended encode and decode
C8_Witness ==
    /\ pc = "roundtrip" /\ fmt = "BASE85_EncodeExt" /\ dfmt = "BASE85_DecodeExt"
    /\ ok /\ Len(raw) = 11 /\ SubSeq(raw, 1, 4) = <<32, 32, 32, 32>>
    /\ SubSeq(Text, 1, 2) = <<ASCII85_SPACE_SHORTCUT, ASCII85_ZERO_SHORTCUT>>
    /\ enc_len = 6

\* C9: padded and unpadded Base32 round-trip every non-empty byte sequence,
\* for every final-group size 1..5; each decode returns true with the
\* original length.
C9_Base32RoundTrip ==
    /\ (pc = "encoded" /\ nullarg = "none" /\ Len(raw) > 0
        /\ fmt \in {"BASE32_EncodeStd", "BASE32_EncodeStdNoPad"})
       => ok
    /\ (pc = "roundtrip" /\ Len(raw) > 0
        /\ fmt \in {"BASE32_EncodeStd", "BASE32_EncodeStdNoPad"})
       => RoundTripOk

\* an unpadded text of a full group and a one-byte final group was decoded
C9_Witness ==
    /\ pc = "roundtrip" /\ fmt = "BASE32_EncodeStdNoPad" /\ ok
    /\ Len(raw) = 6 /\ enc_len = 10 /\ raw[6] = 128

\* the other case of a hex letter, any other character unchanged
SwapCase(c) ==
    IF c \in 65..70 THEN c + 32
    ELSE IF c \in 97..102 THEN c - 32
    ELSE c

\* the texts that differ from t only in the case of hex letters
CaseVariants(t) ==
    LET letters == {k \in 1..Len(t) : SwapCase(t[k]) # t[k]}
    IN  {[k \in 1..Len(t) |-> IF k \in S THEN SwapCase(t[k]) ELSE t[k]] :
            S \in SUBSET letters}

\* C10: BASE16_Decode inverts BASE16_EncodeUpper and BASE16_EncodeLower on
\* every non-empty byte sequence, and changing the case of letters in an
\* accepted hex text does not change the decoded bytes.
C10_Base16CaseInsensitive ==
    /\ (pc = "roundtrip" /\ Len(raw) > 0
        /\ fmt \in {"BASE16_EncodeUpper", "BASE16_EncodeLower"})
       => RoundTripOk
    /\ (pc = "decoded" /\ dfmt = "BASE16_Decode" /\ ok)
       => \A t \in CaseVariants(Text) :
              LET r == BASE16_Decode(t, "none")
              IN  r.ok /\ r.len = dec_len /\ r.out = Decoded

\* an accepted hex text with an upper-case and a lower-case letter
C10_Witness ==
    /\ pc = "decoded" /\ dfmt = "BASE16_Decode" /\ ok
    /\ Text = <<65, 97>> /\ Decoded = <<170>>

Base32Decoders == {"BASE32_DecodeStd", "BASE32_DecodeStdNoPad"}

\* the number of 8-character groups of a text, the last one possibly short
GroupsOf8(t) == (Len(t) + 7) \div 8

\* the number of non-pad symbols in group g of a text
NonPadSymbols(t, g) ==
    Cardinality({k \in (8 * (g - 1) + 1)..(8 * g) : k <= Len(t) /\ t[k] # BASE32_PAD_CHAR})

\* bytes carried by a group of n symbols, n one of 2, 4, 5, 7, 8
BytesOfSymbols(n) == (n * 5) \div 8

RECURSIVE Base32Bytes(_, _)
Base32Bytes(t, g) ==
    IF g = 0 THEN 0 ELSE BytesOfSymbols(NonPadSymbols(t, g)) + Base32Bytes(t, g - 1)

\* C11: BASE32_Decode returns false on a text with a group of 0, 1, 3 or 6
\* non-pad symbols; an accepted text whose groups have 2, 4, 5, 7 or 8
\* non-pad symbols yields 1, 2, 3, 4 or 5 bytes per group.
C11_Base32SymbolCounts ==
    (pc = "decoded" /\ dfmt \in Base32Decoders /\ nullarg = "none" /\ enc_len > 0)
    => /\ (\E g \in 1..GroupsOf8(Text) : NonPadSymbols(Text, g) \in {0, 1, 3, 6})
          => ~ok
       /\ (ok /\ \A g \in 1..GroupsOf8(Text) : NonPadSymbols(Text, g) \in {2, 4, 5, 7, 8})
          => dec_len = Base32Bytes(Text, GroupsOf8(Text))

(***************************************************************************)
(* The character sets of the formats, written out from their definitions.  *)
(***************************************************************************)
Digits == 48..57
UpperLetters == 65..90
LowerLetters == 97..122

Base64Common == UpperLetters \cup LowerLetters \cup Digits \cup {61}

Ascii85Chars == (33..117) \cup {122}

\* 0-9 a-z A-Z . - : + = ^ ! / * ? & < > ( ) [ ] { } @ % $ #
Z85Chars ==
    Digits \cup LowerLetters \cup UpperLetters
    \cup {46, 45, 58, 43, 61, 94, 33, 47, 42, 63, 38, 60, 62, 40, 41, 91, 93,
          123, 125, 64, 37, 36, 35}

\* the valid character set of the format each decode entry point reads
FormatChars ==
    [BASE16_Decode |-> Digits \cup (65..70) \cup (97..102),
     BASE32_DecodeStd |-> UpperLetters \cup (50..55) \cup {61},
     BASE32_DecodeStdNoPad |-> UpperLetters \cup (50..55) \cup {61},
     BASE58_Decode |-> (49..57) \cup (UpperLetters \ {73, 79}) \cup (LowerLetters \ {108}),
     BASE64_DecodeStd |-> Base64Common \cup {43, 47},
     BASE64_DecodeStdNoPad |-> Base64Common \cup {43, 47},
     BASE64_DecodeUrl |-> Base64Common \cup {45, 95},
     BASE64_DecodeUrlNoPad |-> Base64Common \cup {45, 95},
     BASE85_DecodeStd |-> Ascii85Chars,
     BASE85_DecodeExt |-> Ascii85Chars \cup {121},
     BASE85_DecodeZ85 |-> Z85Chars,
     BASE85_DecodeStdIgnoreWS |-> Ascii85Chars,
     BASE85_Decode_ExtIgnoreWS |-> Ascii85Chars \cup {121},
     BASE85_Decode_Z85IgnoreWS |-> Z85Chars]

IgnoreWSDecoders ==
    {"BASE85_DecodeStdIgnoreWS", "BASE85_Decode_ExtIgnoreWS", "BASE85_Decode_Z85IgnoreWS"}

\* the characters a decode entry point may accept: those of its format, and
\* whitespace when it was given BASE85_IGNORE_WS
AcceptedChars(name) ==
    IF name \in IgnoreWSDecoders THEN FormatChars[name] \cup Whitespace
    ELSE FormatChars[name]

Z85Decoders == {"BASE85_DecodeZ85", "BASE85_Decode_Z85IgnoreWS"}

\* the characters of a text that a Z85 decoder reads as digits
Z85DigitCount(t, name) ==
    Cardinality({k \in 1..Len(t) :
                    ~(name \in IgnoreWSDecoders /\ t[k] \in Whitespace)})

\* C13: BASE16_Decode returns false on every odd length, padded
\* BASE32_Decode on every length not a multiple of 8, padded standard and
\* URL-safe BASE64_Decode on every length not a multiple of 4, Z85
\* BASE85_Encode on every input length not a multiple of 4, and Z85
\* BASE85_Decode on every length not a multiple of 5; an accepted Z85 text
\* has no trailing partial group.
C13_MalformedLengths ==
    /\ (pc = "decoded" /\ dfmt = "BASE16_Decode" /\ enc_len % 2 # 0) => ~ok
    /\ (pc = "decoded" /\ dfmt = "BASE32_DecodeStd" /\ enc_len % 8 # 0) => ~ok
    /\ (pc = "decoded" /\ dfmt \in {"BASE64_DecodeStd", "BASE64_DecodeUrl"}
        /\ enc_len % 4 # 0) => ~ok
    /\ (pc = "encoded" /\ fmt = "BASE85_EncodeZ85" /\ Len(raw) % 4 # 0) => ~ok
    /\ (pc = "decoded" /\ dfmt \in Z85Decoders /\ enc_len % 5 # 0) => ~ok
    /\ (pc = "decoded" /\ dfmt \in Z85Decoders /\ ok)
       => /\ Z85DigitCount(Text, dfmt) % 5 = 0
          /\ dec_len = 4 * (Z85DigitCount(Text, dfmt) \div 5)

\* the padded Base32 decoder turned down a text of six valid symbols
C13_Witness ==
    /\ pc = "decoded" /\ dfmt = "BASE32_DecodeStd" /\ ~ok /\ nullarg = "none"
    /\ Text = SubSeq(Base32Symbols, 1, 6)

\* a text with its whitespace characters removed
StripWS(t) == SelectSeq(t, LAMBDA c : c \notin Whitespace)

\* C14: with BASE85_IGNORE_WS set, in Ascii85, Extended and Z85 mode,
\* decoding a non-empty text with whitespace characters inserted gives the
\* same success result and the same bytes as decoding the text itself.
C14_WhitespaceTolerant ==
    (pc = "decoded" /\ dfmt \in IgnoreWSDecoders /\ nullarg = "none"
     /\ Len(StripWS(Text)) > 0)
    => LET r == BASE85_Decode(StripWS(Text), "none", DecodeMode[dfmt])
       IN  /\ ok = r.ok
           /\ ok => (dec_len = r.len /\ Decoded = SubSeq(r.out, 1, r.len))

FourZeros == <<0, 0, 0, 0>>
FourSpaces == <<32, 32, 32, 32>>

\* the text from position pos on is what the shortcut rule asks for the
\* 4-byte groups g, g + 1, ... of data: 'z' for an all-zero group, 'y' for
\* an all-space group when ext, five other characters for any other group,
\* and no shortcut character in the tail
RECURSIVE ShortcutsEmitted(_, _, _, _, _)
ShortcutsEmitted(data, g, text, pos, ext) ==
    IF 4 * g > Len(data)
    THEN \A k \in pos..Len(text) : text[k] \notin {121, 122}
    ELSE LET grp == SubSeq(data, 4 * g - 3, 4 * g)
         IN  IF grp = FourZeros
             THEN pos <= Len(text) /\ text[pos] = 122
                  /\ ShortcutsEmitted(data, g + 1, text, pos + 1, ext)
             ELSE IF ext /\ grp = FourSpaces
             THEN pos <= Len(text) /\ text[pos] = 121
                  /\ ShortcutsEmitted(data, g + 1, text, pos + 1, ext)
             ELSE pos + 4 <= Len(text)
                  /\ (\A k \in pos..(pos + 4) : text[k] \notin {121, 122})
                  /\ ShortcutsEmitted(data, g + 1, text, pos + 5, ext)

\* a walk over a text of Ascii85 digits and shortcut characters from
\* position i on: whether a shortcut stands inside a group, and the byte
\* offsets and fillers of the shortcuts that stand at a group boundary
RECURSIVE ShortcutsRead(_, _, _, _, _)
ShortcutsRead(t, i, count, offset, ext) ==
    IF i > Len(t) THEN [mid |-> FALSE, at |-> {}]
    ELSE IF t[i] = 122 \/ (ext /\ t[i] = 121)
    THEN IF count # 0 THEN [mid |-> TRUE, at |-> {}]
         ELSE LET rest == ShortcutsRead(t, i + 1, 0, offset + 4, ext)
              IN  [mid |-> rest.mid,
                   at |-> rest.at \cup {<<offset, IF t[i] = 122 THEN FourZeros
                                                  ELSE FourSpaces>>}]
    ELSE IF count = 4 THEN ShortcutsRead(t, i + 1, 0, offset + 4, ext)
    ELSE ShortcutsRead(t, i + 1, count + 1, offset, ext)

\* C15: in Ascii85 and Extended mode the encoder writes 'z' for every full
\* all-zero group, in Extended mode also 'y' for every full all-space
\* group, in Ascii85 mode never 'y', and in Z85 mode five characters for
\* every group; the Ascii85 and Extended decoders return false on a
\* shortcut inside a group and expand one at a group boundary to four zero
\* (four space) bytes.
C15_Ascii85Shortcuts ==
    /\ (pc = "encoded" /\ ok /\ nullarg = "none"
        /\ fmt \in {"BASE85_EncodeStd", "BASE85_EncodeExt"})
       => ShortcutsEmitted(raw, 1, Text, 1, fmt = "BASE85_EncodeExt")
    /\ (pc = "encoded" /\ ok /\ nullarg = "none" /\ fmt = "BASE85_EncodeStd")
       => \A k \in 1..enc_len : Text[k] # 121
    /\ (pc = "encoded" /\ ok /\ nullarg = "none" /\ fmt = "BASE85_EncodeZ85")
       => /\ enc_len = 5 * (Len(raw) \div 4)
          /\ \A g \in 1..(Len(raw) \div 4) :
                SubSeq(raw, 4 * g - 3, 4 * g) = FourZeros
                => SubSeq(Text, 5 * g - 4, 5 * g) = <<48, 48, 48, 48, 48>>
    /\ (pc = "decoded" /\ nullarg = "none"
        /\ dfmt \in {"BASE85_DecodeStd", "BASE85_DecodeExt"})
       => LET w == ShortcutsRead(Text, 1, 0, 0, dfmt = "BASE85_DecodeExt")
          IN  /\ w.mid => ~ok
              /\ ok => \A s \in w.at :
                         /\ s[1] + 4 <= dec_len
                         /\ SubSeq(decoded, s[1] + 1, s[1] + 4) = s[2]

\* 'z' after a full group of digits and before a tail was expanded in place
C15_Witness ==
    /\ pc = "decoded" /\ dfmt = "BASE85_DecodeStd" /\ ok
    /\ Text = <<65, 65, 65, 65, 65, 122, 65, 65>>
    /\ dec_len = 9 /\ SubSeq(decoded, 5, 8) = FourZeros

CeilDiv(a, b) == (a + b - 1) \div b

\* the length of the Ascii85 text of data: 5 characters per full group that
\* is not a shortcut group, 1 per shortcut group, tail + 1 for a tail
Ascii85Length(data, ext) ==
    LET full == Len(data) \div 4
        short == Cardinality({g \in 1..full :
                    \/ SubSeq(data, 4 * g - 3, 4 * g) = FourZeros
                    \/ ext /\ SubSeq(data, 4 * g - 3, 4 * g) = FourSpaces})
        tail == Len(data) % 4
    IN  5 * (full - short) + short + (IF tail > 0 THEN tail + 1 ELSE 0)

\* the encoded length of n > 0 bytes by the formula of each variant
ExactLength ==
    [BASE16_EncodeUpper |-> 2 * Len(raw),
     BASE16_EncodeLower |-> 2 * Len(raw),
     BASE32_EncodeStd |-> 8 * CeilDiv(Len(raw), 5),
     BASE32_EncodeStdNoPad |-> CeilDiv(8 * Len(raw), 5),
     BASE64_EncodeStd |-> 4 * CeilDiv(Len(raw), 3),
     BASE64_EncodeStdNoPad |-> CeilDiv(4 * Len(raw), 3),
     BASE64_EncodeUrl |-> 4 * CeilDiv(Len(raw), 3),
     BASE64_EncodeUrlNoPad |-> CeilDiv(4 * Len(raw), 3),
     BASE85_EncodeStd |-> Ascii85Length(raw, FALSE),
     BASE85_EncodeExt |-> Ascii85Length(raw, TRUE),
     BASE85_EncodeZ85 |-> (5 * Len(raw)) \div 4]

\* C16: for every accepted input of n > 0 bytes the reported length is 2n
\* for Base16, 8*ceil(n/5) and ceil(8n/5) for padded and no-pad Base32,
\* 4*ceil(n/3) and ceil(4n/3) for padded and no-pad Base64, 5n/4 for Z85,
\* and for Ascii85 and Extended 5 per plain full group, 1 per shortcut group
\* and tail + 1 for a tail of 1..3 bytes.
C16_ExactEncodedLength ==
    (pc = "encoded" /\ ok /\ nullarg = "none" /\ Len(raw) > 0
     /\ fmt \in DOMAIN ExactLength)
    => enc_len = ExactLength[fmt]

\* seven bytes went through the unpadded Base32 encoder
C16_Witness ==
    /\ pc = "encoded" /\ ok /\ fmt = "BASE32_EncodeStdNoPad"
    /\ Len(raw) = 7 /\ enc_len = 12

(***************************************************************************)
(* RFC 4648 reference encoder: the input as a bit string, most significant *)
(* bit first, cut into windows of w bits and padded with zero bits.        *)
(***************************************************************************)
\* bit k (from 1) of the data, 0 past its end
BitOf(data, k) ==
    IF k > 8 * Len(data) THEN 0
    ELSE (data[((k - 1) \div 8) + 1] \div Pow2(7 - ((k - 1) % 8))) % 2

\* the value of the w bits that start at bit k, taking j more bits
RECURSIVE WindowValue(_, _, _, _)
WindowValue(data, k, j, acc) ==
    IF j = 0 THEN acc ELSE WindowValue(data, k + 1, j - 1, 2 * acc + BitOf(data, k))

\* RFC 4648 alphabets: A-Z 2-7, and A-Z a-z 0-9 with '+' '/' or '-' '_'
Rfc32Char(v) == IF v < 26 THEN 65 + v ELSE 50 + (v - 26)

Rfc64Char(v, url) ==
    IF v < 26 THEN 65 + v
    ELSE IF v < 52 THEN 97 + (v - 26)
    ELSE IF v < 62 THEN 48 + (v - 52)
    ELSE IF v = 62 THEN (IF url THEN 45 ELSE 43)
    ELSE (IF url THEN 95 ELSE 47)

\* the reference text: ceil(8n / w) symbols, then '=' up to a multiple of
\* grp when padded
RfcEncode(data, w, grp, padded, url) ==
    LET n == CeilDiv(8 * Len(data), w)
        total == IF padded THEN grp * CeilDiv(n, grp) ELSE n
    IN  [k \in 1..total |->
            IF k > n THEN 61
            ELSE LET v == WindowValue(data, w * (k - 1) + 1, w, 0)
                 IN  IF w = 5 THEN Rfc32Char(v) ELSE Rfc64Char(v, url)]

RfcReference ==
    [BASE32_EncodeStd |-> RfcEncode(raw, 5, 8, TRUE, FALSE),
     BASE32_EncodeStdNoPad |-> RfcEncode(raw, 5, 8, FALSE, FALSE),
     BASE64_EncodeStd |-> RfcEncode(raw, 6, 4, TRUE, FALSE),
     BASE64_EncodeStdNoPad |-> RfcEncode(raw, 6, 4, FALSE, FALSE),
     BASE64_EncodeUrl |-> RfcEncode(raw, 6, 4, TRUE, TRUE),
     BASE64_EncodeUrlNoPad |-> RfcEncode(raw, 6, 4, FALSE, TRUE)]

RECURSIVE Ref58Rem(_, _, _)
Ref58Rem(s, i, r) ==
    IF i > Len(s) THEN r ELSE Ref58Rem(s, i + 1, (r * 256 + s[i]) % 58)

\* the base-58 digits of the number s, most significant first, none for 0
RECURSIVE Ref58Digits(_)
Ref58Digits(s) ==
    IF AllZero(s) THEN <<>>
    ELSE Ref58Digits(Ref58Quot(s, 1, 0)) \o <<Ref58Rem(s, 1, 0)>>

\* the Base58 alphabet: digits and letters without 0, O, I, l, in ASCII
\* order; the character of digit d is its d-th smallest element, from 0
Base58Alphabet == (49..57) \cup (UpperLetters \ {73, 79}) \cup (LowerLetters \ {108})

Base58Char(d) ==
    CHOOSE c \in Base58Alphabet : Cardinality({x \in Base58Alphabet : x < c}) = d

\* the number of leading zero bytes of s
LeadingZeroBytes(s) == Cardinality({k \in 1..Len(s) : \A j \in 1..k : s[j] = 0})

Ref58Text(s) ==
    LET digits == Ref58Digits(s)
    IN  [k \in 1..LeadingZeroBytes(s) |-> 49]
        \o [k \in 1..Len(digits) |-> Base58Char(digits[k])]

\* C18: a successful BASE58_Encode of a non-empty input with z leading zero
\* bytes writes z characters '1' followed by the minimal big-endian base-58
\* digits of the integer formed by the remaining bytes, and nothing after
\* the '1's when that integer is zero.
C18_Base58Structure ==
    (pc \in {"encoded", "retried"} /\ fmt = "BASE58_Encode" /\ ok /\ Len(raw) > 0)
    => /\ Text = Ref58Text(raw)
       /\ AllZero(raw) => Text = [k \in 1..Len(raw) |-> 49]

\* 00 00 01 was encoded to "112"
C18_Witness ==
    /\ pc \in {"encoded", "retried"} /\ fmt = "BASE58_Encode" /\ ok
    /\ raw = <<0, 0, 1>> /\ Text = <<49, 49, 50>> /\ dfmt = "none"

\* C19: every encode entry point that returns true has written the NUL
\* character at out_encoded[L], L being the length it reports, and none of
\* the L characters before it is NUL.
C19_NulTerminated ==
    (pc \in {"encoded", "retried"} /\ ok)
    => /\ Len(encoded) >= enc_len + 1
       /\ encoded[enc_len + 1] = NUL
       /\ \A k \in 1..enc_len : encoded[k] # NUL

\* an Ascii85 text with a shortcut and a tail, and its terminator
C19_Witness ==
    /\ pc = "encoded" /\ ok /\ fmt = "BASE85_EncodeStd"
    /\ Len(raw) = 5 /\ SubSeq(raw, 1, 4) = FourZeros
    /\ enc_len = 3 /\ Len(encoded) = 4 /\ encoded[4] = NUL /\ encoded[1] = 122

\* a step in which an encode entry point returned
EncodeReturned ==
    \/ pc = "start" /\ pc' = "encoded"
    \/ pc = "encoded" /\ pc' = "retried"

\* a step in which a decode entry point returned
DecodeReturned ==
    pc \in {"loaded", "encoded", "retried"} /\ pc' \in {"decoded", "roundtrip"}

\* the call of BASE58_Encode fails its argument check (tiny_cbase.c:228)
BASE58_BadArguments == nullarg # "none" \/ Len(raw) = 0

\* C21: when a decode entry point, or an encode entry point other than
\* BASE58_Encode, returns false, the caller's length variable holds the
\* value it had before the call.  BASE58_Encode returning false leaves it
\* unchanged when the argument check failed and stores a larger value (the
\* required capacity) otherwise.  No call changes the length variable of the
\* other buffer.
C21_LengthUntouchedOnFailure ==
    [][/\ (DecodeReturned /\ ~ok') => dec_len' = dec_len
       /\ DecodeReturned => enc_len' = enc_len
       /\ EncodeReturned => dec_len' = dec_len
       /\ (EncodeReturned /\ ~ok' /\ fmt' # "BASE58_Encode") => enc_len' = enc_len
       /\ (EncodeReturned /\ ~ok' /\ fmt' = "BASE58_Encode")
          => IF BASE58_BadArguments THEN enc_len' = enc_len
             ELSE enc_len' > enc_len]_vars

\* a Base64 text whose second group holds a bad character: the first group's
\* three bytes were written, the call returned false and the length variable
\* still holds the value the caller gave it
C21_Witness ==
    /\ pc = "decoded" /\ dfmt = "BASE64_DecodeStd" /\ ~ok /\ nullarg = "none"
    /\ enc_len = 8 /\ Len(decoded) = 3 /\ dec_len = MAX_BUF

Base85Decoders ==
    {"BASE85_DecodeStd", "BASE85_DecodeExt", "BASE85_DecodeZ85",
     "BASE85_DecodeStdIgnoreWS", "BASE85_Decode_ExtIgnoreWS",
     "BASE85_Decode_Z85IgnoreWS"}

\* the 85 digit characters of an alphabet, and the digit a character stands
\* for (its index in the alphabet)
Base85DigitChars(isZ85) == {BASE85_DigitChar(d, isZ85) : d \in 0..84}

DigitOf(c, isZ85) == CHOOSE d \in 0..84 : BASE85_DigitChar(d, isZ85) = c

\* n * m + a for a number n held as base-256 digits, least significant
\* first; with five digits nothing is dropped for five base-85 digits
\* (85^5 < 256^5)
RECURSIVE WideMulAdd(_, _, _)
WideMulAdd(n, m, a) ==
    IF n = <<>> THEN <<>>
    ELSE LET t == n[1] * m + a
         IN  <<t % 256>> \o WideMulAdd(Tail(n), m, t \div 256)

WideZero == <<0, 0, 0, 0, 0>>

\* d0*85^4 + d1*85^3 + d2*85^2 + d3*85 + d4 of a group of five characters,
\* as five base-256 digits
RECURSIVE GroupValue(_, _, _)
GroupValue(group, isZ85, n) ==
    IF group = <<>> THEN n
    ELSE GroupValue(Tail(group), isZ85,
                    WideMulAdd(n, 85, DigitOf(Head(group), isZ85)))

\* the group's value is 2^32 or more
ExceedsU32(group, isZ85) == GroupValue(group, isZ85, WideZero)[5] > 0

\* the big-endian four bytes of the group's value mod 2^32
WrappedBytes(group, isZ85) ==
    LET v == GroupValue(group, isZ85, WideZero)
    IN  <<v[4], v[3], v[2], v[1]>>

\* C22: a text that consists of groups of five valid digits is accepted by
\* BASE85_Decode in every mode, and each group yields the big-endian four
\* bytes of d0*85^4 + d1*85^3 + d2*85^2 + d3*85 + d4 mod 2^32; a group whose
\* value exceeds 2^32 - 1 is decoded to the wrapped value, not rejected.
C22_GroupArithmeticWraps ==
    (/\ pc \in {"decoded", "roundtrip"} /\ dfmt \in Base85Decoders
     /\ nullarg = "none" /\ enc_len > 0 /\ enc_len % 5 = 0
     /\ \A k \in 1..enc_len : Text[k] \in Base85DigitChars(dfmt \in Z85Decoders))
    => /\ ok
       /\ dec_len = 4 * (enc_len \div 5)
       /\ \A g \in 0..(enc_len \div 5 - 1) :
             SubSeq(decoded, 4 * g + 1, 4 * g + 4)
             = WrappedBytes(SubSeq(Text, 5 * g + 1, 5 * g + 5), dfmt \in Z85Decoders)

\* "uuuuu" (84 * (85^4 + 85^3 + 85^2 + 85 + 1) = 2^32 + 0x08780EC4) was
\* accepted in Ascii85 and decoded to 08 78 0E C4
C22_Witness ==
    /\ pc = "decoded" /\ dfmt = "BASE85_DecodeStd" /\ ok
    /\ Text = <<117, 117, 117, 117, 117>>
    /\ ExceedsU32(Text, FALSE)
    /\ dec_len = 4 /\ Decoded = <<8, 120, 14, 196>>

(***************************************************************************)
(* Two calls on two threads.  Memory is one array of cells; a call is      *)
(* given the addresses of its input buffer, its output buffer and its      *)
(* length variable.  A step is one iteration of a loop of the function or  *)
(* one straight-line part of it.  The locals of a call, the digit buffer   *)
(* of BASE58_Encode included, are automatic and live in the thread's frame.*)
(***************************************************************************)
Threads == {1, 2}

\* cells per buffer
RegionSize == 8

\* a cell no call has stored into
Unwritten == -1

\* the layout: input buffer, output buffer and length variable of thread t
InBase(t) == (t - 1) * (2 * RegionSize + 1)

\* variant of OutBase: both threads are handed the same output buffer
OutBase_Shared(t) == RegionSize

OutBase(t) == InBase(t) + RegionSize

LenAddr(t) == InBase(t) + 2 * RegionSize

\* the calls a thread may run: function, input, capacity in the length
\* variable, mode flags
ConcCalls ==
    {[fn |-> "BASE58_Encode", data |-> d, cap |-> c, mode |-> BASE58_ENC] :
        d \in {<<>>, <<0, 1>>, <<255, 255>>}, c \in {2, RegionSize}}
    \cup
    {[fn |-> "BASE85_Decode", data |-> d, cap |-> RegionSize, mode |-> m] :
        d \in {<<122, 65, 65>>, <<65, 65, 65, 65, 65>>, <<122, 65, 122>>},
        m \in {BASE85_STD_DEC, BASE85_Z85_DEC}}

NewFrame(t, call) ==
    [call |-> call, pc |-> "args", ret |-> FALSE,
     in |-> InBase(t), inlen |-> Len(call.data), out |-> OutBase(t),
     lenp |-> LenAddr(t),
     zcount |-> 0, size |-> 0, buf |-> <<>>, i |-> 0, j |-> 0, high |-> 0,
     val |-> 0, index |-> 0, value |-> U32Zero, count |-> 0]

InitHeap(calls) ==
    [a \in 0..(2 * (2 * RegionSize + 1) - 1) |->
        LET t == (a \div (2 * RegionSize + 1)) + 1
            off == a % (2 * RegionSize + 1)
        IN  IF off < Len(calls[t].data) THEN calls[t].data[off + 1]
            ELSE IF off < 2 * RegionSize THEN Unwritten
            ELSE calls[t].cap]

InitConc ==
    /\ pc = "threads" /\ fmt = "none" /\ dfmt = "none" /\ nullarg = "none"
    /\ raw = <<>> /\ cap = 0 /\ encoded = <<>> /\ enc_len = 0
    /\ decoded = <<>> /\ dec_len = 0 /\ ok = FALSE
    /\ \E calls \in [Threads -> ConcCalls] :
          /\ frame = [t \in Threads |-> NewFrame(t, calls[t])]
          /\ heap = InitHeap(calls)
    /\ rodata = RoTables

\* memory after the cells of w have been stored from address a on
Poke(h, a, w) ==
    [x \in DOMAIN h |-> IF x >= a /\ x < a + Len(w) THEN w[x - a + 1] ELSE h[x]]

\* thread t runs fn and stands at label; its frame becomes f, memory h
ThreadStep(t, f, h) ==
    /\ frame' = [frame EXCEPT ![t] = f]
    /\ heap' = h
    /\ UNCHANGED <<seqvars, rodata>>

At(t, fn, label) == frame[t].call.fn = fn /\ frame[t].pc = label

Return(f, r) == [f EXCEPT !.pc = "done", !.ret = r]

(***************************************************************************)
(* BASE58_Encode step by step (tiny_cbase.c:227-269).                      *)
(***************************************************************************)
\* the argument test
B58_Args(t) ==
    /\ At(t, "BASE58_Encode", "args")
    /\ LET f == frame[t]
       IN  ThreadStep(t, IF f.inlen = 0 THEN Return(f, FALSE)
                         ELSE [f EXCEPT !.pc = "zcount", !.zcount = 0], heap)

\* one test of the loop that counts leading zero bytes, then the digit
\* buffer is set up
B58_CountZeros(t) ==
    /\ At(t, "BASE58_Encode", "zcount")
    /\ LET f == frame[t]
           size == BASE58_ENC_LEN(f.inlen - f.zcount)
       IN  ThreadStep(t,
               IF f.zcount < f.inlen /\ heap[f.in + f.zcount] = 0
               THEN [f EXCEPT !.zcount = f.zcount + 1]
               ELSE [f EXCEPT !.size = size, !.buf = Zeros(size), !.i = f.zcount,
                              !.high = size - 1, !.pc = "outer"],
               heap)

\* the test of the loop over the input bytes and the read of the next byte
B58_Outer(t) ==
    /\ At(t, "BASE58_Encode", "outer")
    /\ LET f == frame[t]
       IN  ThreadStep(t,
               IF f.i < f.inlen
               THEN [f EXCEPT !.val = heap[f.in + f.i], !.j = f.size - 1, !.pc = "inner"]
               ELSE [f EXCEPT !.j = 0, !.pc = "skip"],
               heap)

\* one iteration of the carry loop, or its exit with ++i, high = j
B58_Inner(t) ==
    /\ At(t, "BASE58_Encode", "inner")
    /\ LET f == frame[t]
           v == f.val + 256 * f.buf[f.j + 1]
           g == [f EXCEPT !.buf = [f.buf EXCEPT ![f.j + 1] = v % 58],
                          !.val = v \div 58]
       IN  ThreadStep(t,
               IF f.j > f.high \/ f.val # 0
               THEN IF f.j = 0
                    THEN [g EXCEPT !.i = f.i + 1, !.high = 0, !.pc = "outer"]
                    ELSE [g EXCEPT !.j = f.j - 1]
               ELSE [f EXCEPT !.i = f.i + 1, !.high = f.j, !.pc = "outer"],
               heap)

\* one test of the loop that skips the leading zero digits
B58_Skip(t) ==
    /\ At(t, "BASE58_Encode", "skip")
    /\ LET f == frame[t]
       IN  ThreadStep(t,
               IF f.j < f.size /\ f.buf[f.j + 1] = 0
               THEN [f EXCEPT !.j = f.j + 1]
               ELSE [f EXCEPT !.pc = "cap"],
               heap)

\* the capacity test; the required size is stored on failure
B58_Capacity(t) ==
    /\ At(t, "BASE58_Encode", "cap")
    /\ LET f == frame[t]
           needed == f.zcount + f.size - f.j
       IN  IF BASE58_TooSmall(heap[f.lenp], needed)
           THEN ThreadStep(t, Return(f, FALSE),
                           Poke(heap, f.lenp, <<BASE58_Required(needed)>>))
           ELSE ThreadStep(t, [f EXCEPT !.i = 0, !.pc = "ones"], heap)

\* one iteration of the loop that writes the leading '1' characters
B58_Ones(t) ==
    /\ At(t, "BASE58_Encode", "ones")
    /\ LET f == frame[t]
       IN  IF f.i < f.zcount
           THEN ThreadStep(t, [f EXCEPT !.i = f.i + 1],
                           Poke(heap, f.out + f.i, <<BASE58_LEADING_ZERO>>))
           ELSE ThreadStep(t, [f EXCEPT !.pc = "chars"], heap)

\* one iteration of the loop that writes the digit characters
B58_Chars(t) ==
    /\ At(t, "BASE58_Encode", "chars")
    /\ LET f == frame[t]
       IN  IF f.j < f.size
           THEN ThreadStep(t, [f EXCEPT !.i = f.i + 1, !.j = f.j + 1],
                           Poke(heap, f.out + f.i,
                                <<rodata.BASE58_ENC_TABLE[f.buf[f.j + 1] + 1]>>))
           ELSE ThreadStep(t, [f EXCEPT !.pc = "term"], heap)

\* the terminator and the length
B58_Terminate(t) ==
    /\ At(t, "BASE58_Encode", "term")
    /\ LET f == frame[t]
       IN  ThreadStep(t, Return(f, TRUE),
                      Poke(Poke(heap, f.out + f.i, <<NUL>>), f.lenp, <<f.i>>))

(***************************************************************************)
(* BASE85_Decode step by step (tiny_cbase.c:583-668).                      *)
(***************************************************************************)
\* the argument test, the Z85 length guard and the initial locals
B85_Args(t) ==
    /\ At(t, "BASE85_Decode", "args")
    /\ LET f == frame[t]
           isZ85 == BitAnd(f.call.mode, BASE85_Z85_DEC) # 0
       IN  ThreadStep(t,
               IF f.inlen = 0 \/ (isZ85 /\ f.inlen % 5 # 0) THEN Return(f, FALSE)
               ELSE [f EXCEPT !.index = 0, !.value = U32Zero, !.count = 0,
                              !.i = 0, !.pc = "scan"],
               heap)

\* one iteration of the scan loop, or its exit
B85_Scan(t) ==
    /\ At(t, "BASE85_Decode", "scan")
    /\ LET f == frame[t]
           isZ85 == BitAnd(f.call.mode, BASE85_Z85_DEC) # 0
           useExt == BitAnd(f.call.mode, BASE85_EXT_DEC) # 0
           ignoreWs == BitAnd(f.call.mode, BASE85_IGNORE_WS) # 0
           c == heap[f.in + f.i]
           min_char == IF isZ85 THEN BASE85_Z85_MIN ELSE BASE85_ASCII85_MIN
           max_char == IF isZ85 THEN BASE85_Z85_MAX ELSE BASE85_ASCII85_MAX
           rev_table == IF isZ85 THEN rodata.BASE85_Z85_REV_TABLE
                        ELSE rodata.BASE85_ASCII85_REV_TABLE
           val == IF c >= min_char /\ c <= max_char
                  THEN rev_table[c - min_char + 1] ELSE -1
           nv == U32MulAdd(f.value, 85, val)
           next == [f EXCEPT !.i = f.i + 1]
       IN  IF f.i >= f.inlen THEN ThreadStep(t, [f EXCEPT !.pc = "finish"], heap)
           ELSE IF ignoreWs /\ isspace(c) THEN ThreadStep(t, next, heap)
           ELSE IF ~isZ85 /\ c = ASCII85_ZERO_SHORTCUT /\ f.count = 0
           THEN ThreadStep(t, [next EXCEPT !.index = f.index + 4],
                           Poke(heap, f.out + f.index, write_u32_be(U32Zero)))
           ELSE IF ~isZ85 /\ useExt /\ c = ASCII85_SPACE_SHORTCUT /\ f.count = 0
           THEN ThreadStep(t, [next EXCEPT !.index = f.index + 4],
                           Poke(heap, f.out + f.index, write_u32_be(U32Spaces)))
           ELSE IF val < 0 THEN ThreadStep(t, Return(f, FALSE), heap)
           ELSE IF f.count + 1 = 5
           THEN ThreadStep(t, [next EXCEPT !.index = f.index + 4,
                                           !.value = U32Zero, !.count = 0],
                           Poke(heap, f.out + f.index, write_u32_be(nv)))
           ELSE ThreadStep(t, [next EXCEPT !.value = nv, !.count = f.count + 1], heap)

\* the partial final block and the length
B85_Finish(t) ==
    /\ At(t, "BASE85_Decode", "finish")
    /\ LET f == frame[t]
           isZ85 == BitAnd(f.call.mode, BASE85_Z85_DEC) # 0
           v == BASE85_PadValue(f.value, f.count)
           tail == [j \in 1..(f.count - 1) |-> U32Byte(v, j - 1)]
       IN  IF ~isZ85 /\ f.count > 0
           THEN ThreadStep(t, Return(f, TRUE),
                           Poke(Poke(heap, f.out + f.index, tail),
                                f.lenp, <<f.index + f.count - 1>>))
           ELSE IF isZ85 /\ f.count # 0 THEN ThreadStep(t, Return(f, FALSE), heap)
           ELSE ThreadStep(t, Return(f, TRUE), Poke(heap, f.lenp, <<f.index>>))

NextConc ==
    \E t \in Threads :
        \/ B58_Args(t)
        \/ B58_CountZeros(t)
        \/ B58_Outer(t)
        \/ B58_Inner(t)
        \/ B58_Skip(t)
        \/ B58_Capacity(t)
        \/ B58_Ones(t)
        \/ B58_Chars(t)
        \/ B58_Terminate(t)
        \/ B85_Args(t)
        \/ B85_Scan(t)
        \/ B85_Finish(t)

SpecConc == InitConc /\ [][NextConc]_vars

\* what the call of a thread returns and stores when it runs alone
SoloResult(call) ==
    IF call.fn = "BASE58_Encode" THEN BASE58_Encode(call.data, "none", call.cap)
    ELSE BASE85_Decode(call.data, "none", call.mode)

\* the cells a call may store into: its output buffer and length variable
OwnCells(t) == (OutBase(t)..(OutBase(t) + RegionSize - 1)) \cup {LenAddr(t)}

\* a finished call of thread t left what it leaves when it runs alone
AgreesWithSolo(t) ==
    LET f == frame[t]
        r == SoloResult(f.call)
    IN  /\ f.ret = r.ok
        /\ \A k \in 1..RegionSize :
              heap[OutBase(t) + k - 1] = IF k <= Len(r.out) THEN r.out[k] ELSE Unwritten
        /\ heap[LenAddr(t)] = IF r.wlen THEN r.len ELSE f.call.cap

\* no cell outside the stepping thread's output buffer and length variable
\* changes in a step
WritesOwnCells ==
    \A a \in DOMAIN heap :
        heap'[a] # heap[a]
        => \E t \in Threads : frame'[t] # frame[t] /\ a \in OwnCells(t)

====
